---- MODULE Spec2Model ----
(***************************************************************************)
(* langchain-axiora: the HTTP adapter (AxioraAPIWrapper), the error        *)
(* translator (_handle_http_error), the 18 tool facades and the retriever. *)
(*                                                                         *)
(* Texts are TLA+ strings.  SANY admits only ASCII in string literals, so  *)
(* the character "~" is reserved to denote one code point above U+007F     *)
(* (U+65E5); it occurs in no other role.                                   *)
(***************************************************************************)
EXTENDS Integers, Sequences, FiniteSets, TLC

(***************************************************************************)
(* Text helpers (Python str operations used by the source).                *)
(***************************************************************************)

\* s[i] as a one-character text, "" past the end
Ch(s, i) == IF i >= 1 /\ i <= Len(s) THEN SubSeq(s, i, i) ELSE ""

\* Python slice s[:n]
Take(s, n) == IF Len(s) <= n THEN s ELSE SubSeq(s, 1, n)

\* Python `sub in s`
Contains(s, sub) ==
    \E i \in 1..(Len(s) - Len(sub) + 1) : SubSeq(s, i, i + Len(sub) - 1) = sub

StartsWith(s, p) == Len(p) <= Len(s) /\ SubSeq(s, 1, Len(p)) = p

\* Python sep.join(parts)
RECURSIVE Join(_, _)
Join(parts, sep) ==
    IF parts = <<>> THEN ""
    ELSE IF Len(parts) = 1 THEN parts[1]
    ELSE parts[1] \o sep \o Join(Tail(parts), sep)

\* Python s.rstrip(c)
RECURSIVE RStrip(_, _)
RStrip(s, c) ==
    IF Len(s) > 0 /\ Ch(s, Len(s)) = c THEN RStrip(SubSeq(s, 1, Len(s) - 1), c)
    ELSE s

\* n copies of s
RECURSIVE Rep(_, _)
Rep(s, n) ==
    IF n <= 0 THEN ""
    ELSE IF n % 2 = 0 THEN LET half == Rep(s, n \div 2) IN half \o half
    ELSE s \o Rep(s, n - 1)

(***************************************************************************)
(* Python / JSON values.  One record shape for every value, so that any    *)
(* two values can be compared.                                             *)
(***************************************************************************)
PyNone     == [t |-> "none", n |-> 0, s |-> "", keys |-> <<>>, kids |-> <<>>]
PyBool(b)  == [t |-> "bool", n |-> IF b THEN 1 ELSE 0, s |-> "", keys |-> <<>>, kids |-> <<>>]
PyInt(i)   == [t |-> "int", n |-> i, s |-> "", keys |-> <<>>, kids |-> <<>>]
PyStr(x)   == [t |-> "str", n |-> 0, s |-> x, keys |-> <<>>, kids |-> <<>>]
PyList(xs) == [t |-> "list", n |-> 0, s |-> "", keys |-> <<>>, kids |-> xs]
PyDict(ks, vs) == [t |-> "dict", n |-> 0, s |-> "", keys |-> ks, kids |-> vs]

\* Python truth value of an object (`if x:`, `x or y`)
Truthy(v) ==
    CASE v.t = "none" -> FALSE
      [] v.t = "bool" -> v.n = 1
      [] v.t = "int"  -> v.n # 0
      [] v.t = "str"  -> v.s # ""
      [] OTHER        -> v.kids # <<>>

\* index of key k in a dict, 0 when absent
KeyIndex(d, k) ==
    IF \E i \in 1..Len(d.keys) : d.keys[i] = k
    THEN CHOOSE i \in 1..Len(d.keys) : d.keys[i] = k
    ELSE 0

HasKey(d, k) == KeyIndex(d, k) # 0

\* dict.get(k, default)
DictGet(d, k, default) == IF HasKey(d, k) THEN d.kids[KeyIndex(d, k)] ELSE default

\* d[k] = v : replaces in place, or appends
DictPut(d, k, v) ==
    IF HasKey(d, k)
    THEN PyDict(d.keys, [d.kids EXCEPT ![KeyIndex(d, k)] = v])
    ELSE PyDict(Append(d.keys, k), Append(d.kids, v))

(***************************************************************************)
(* json.dumps(data, ensure_ascii=False, default=str) and json.loads, as    *)
(* CPython's json module computes them (item separator ", ", key separator *)
(* ": ").  Numbers are integers; every value here is JSON-native, so the   *)
(* `default` hook of dumps is never consulted.                             *)
(***************************************************************************)
NonAscii == "~"
NonAsciiEscape == "\\u65e5"

\* json.encoder.py_encode_basestring: ESCAPE_DCT
EscapeChar(c) ==
    CASE c = "\"" -> "\\\""
      [] c = "\\" -> "\\\\"
      [] c = "\n" -> "\\n"
      [] c = "\r" -> "\\r"
      [] c = "\t" -> "\\t"
      [] c = "\f" -> "\\f"
      [] OTHER    -> c

\* json.encoder.py_encode_basestring_ascii: as above, and \uXXXX for non-ASCII
EscapeCharAscii(c) == IF c = NonAscii THEN NonAsciiEscape ELSE EscapeChar(c)

RECURSIVE EscapeFrom(_, _, _)
EscapeFrom(s, i, ensure_ascii) ==
    IF i > Len(s) THEN ""
    ELSE (IF ensure_ascii THEN EscapeCharAscii(Ch(s, i)) ELSE EscapeChar(Ch(s, i)))
         \o EscapeFrom(s, i + 1, ensure_ascii)

EncodeStr(s, ensure_ascii) == "\"" \o EscapeFrom(s, 1, ensure_ascii) \o "\""

RECURSIVE Dumps(_, _)
Dumps(v, ensure_ascii) ==
    CASE v.t = "none" -> "null"
      [] v.t = "bool" -> (IF v.n = 1 THEN "true" ELSE "false")
      [] v.t = "int"  -> ToString(v.n)
      [] v.t = "str"  -> EncodeStr(v.s, ensure_ascii)
      [] v.t = "list" ->
           "[" \o Join([i \in 1..Len(v.kids) |-> Dumps(v.kids[i], ensure_ascii)], ", ") \o "]"
      [] v.t = "dict" ->
           "{" \o Join([i \in 1..Len(v.kids) |->
                          EncodeStr(v.keys[i], ensure_ascii) \o ": "
                          \o Dumps(v.kids[i], ensure_ascii)], ", ") \o "}"

\* variant: ensure_ascii left at its default
FmtEscapingNonAscii(data) == Dumps(data, TRUE)

\* tools.py: _fmt
_fmt(data) == Dumps(data, FALSE)

\* --- decoder -----------------------------------------------------------
Fail == [ok |-> FALSE, v |-> PyNone, i |-> 0]
Ok(v, i) == [ok |-> TRUE, v |-> v, i |-> i]

IsWs(c) == c \in {" ", "\n", "\t", "\r"}
IsDigit(c) == c \in {"0", "1", "2", "3", "4", "5", "6", "7", "8", "9"}
DigitVal(c) ==
    CASE c = "0" -> 0 [] c = "1" -> 1 [] c = "2" -> 2 [] c = "3" -> 3 [] c = "4" -> 4
      [] c = "5" -> 5 [] c = "6" -> 6 [] c = "7" -> 7 [] c = "8" -> 8 [] c = "9" -> 9

RECURSIVE SkipWs(_, _)
SkipWs(s, i) == IF IsWs(Ch(s, i)) THEN SkipWs(s, i + 1) ELSE i

\* i is the position after the opening quote
RECURSIVE ParseString(_, _, _)
ParseString(s, i, acc) ==
    LET c == Ch(s, i) IN
    CASE c = "" -> Fail
      [] c = "\"" -> Ok(PyStr(acc), i + 1)
      [] c \in {"\n", "\r", "\t", "\f"} -> Fail
      [] c = "\\" ->
           LET e == Ch(s, i + 1) IN
           CASE e \in {"\"", "\\", "/"} -> ParseString(s, i + 2, acc \o e)
             [] e = "n" -> ParseString(s, i + 2, acc \o "\n")
             [] e = "r" -> ParseString(s, i + 2, acc \o "\r")
             [] e = "t" -> ParseString(s, i + 2, acc \o "\t")
             [] e = "f" -> ParseString(s, i + 2, acc \o "\f")
             [] e = "u" /\ i + 5 <= Len(s) /\ SubSeq(s, i, i + 5) = NonAsciiEscape ->
                  ParseString(s, i + 6, acc \o NonAscii)
             [] OTHER -> Fail
      [] OTHER -> ParseString(s, i + 1, acc \o c)

RECURSIVE ParseDigits(_, _, _)
ParseDigits(s, i, acc) ==
    IF IsDigit(Ch(s, i)) THEN ParseDigits(s, i + 1, 10 * acc + DigitVal(Ch(s, i)))
    ELSE [n |-> acc, i |-> i]

\* d is what ParseDigits read from position j on
NumberFrom(s, j, neg, d) ==
    IF ~IsDigit(Ch(s, j)) \/ (Ch(s, j) = "0" /\ d.i > j + 1)
       \/ Ch(s, d.i) \in {".", "e", "E"}
    THEN Fail
    ELSE Ok(PyInt(IF neg THEN 0 - d.n ELSE d.n), d.i)

ParseNumber(s, i) ==
    IF Ch(s, i) = "-" THEN NumberFrom(s, i + 1, TRUE, ParseDigits(s, i + 1, 0))
    ELSE NumberFrom(s, i, FALSE, ParseDigits(s, i, 0))

ParseLiteral(s, i, word, v) ==
    IF i + Len(word) - 1 <= Len(s) /\ SubSeq(s, i, i + Len(word) - 1) = word
    THEN Ok(v, i + Len(word)) ELSE Fail

RECURSIVE ParseValue(_, _)
RECURSIVE ParseElems(_, _, _)
RECURSIVE ElemAfterValue(_, _, _)
RECURSIVE ParseMembers(_, _, _)
RECURSIVE MemberAfterKey(_, _, _)
RECURSIVE MemberAfterValue(_, _, _, _)

ParseValue(s, i0) ==
    LET i == SkipWs(s, i0)
        c == Ch(s, i)
    IN  CASE c = "{" ->
               (LET j == SkipWs(s, i + 1) IN
                IF Ch(s, j) = "}" THEN Ok(PyDict(<<>>, <<>>), j + 1)
                ELSE ParseMembers(s, j, PyDict(<<>>, <<>>)))
          [] c = "[" ->
               (LET j == SkipWs(s, i + 1) IN
                IF Ch(s, j) = "]" THEN Ok(PyList(<<>>), j + 1)
                ELSE ParseElems(s, j, <<>>))
          [] c = "\"" -> ParseString(s, i + 1, "")
          [] c = "n" -> ParseLiteral(s, i, "null", PyNone)
          [] c = "t" -> ParseLiteral(s, i, "true", PyBool(TRUE))
          [] c = "f" -> ParseLiteral(s, i, "false", PyBool(FALSE))
          [] c = "-" \/ IsDigit(c) -> ParseNumber(s, i)
          [] OTHER -> Fail

\* the elements of an array from position i on; acc holds those read so far
ParseElems(s, i, acc) == ElemAfterValue(s, acc, ParseValue(s, i))

\* r is the element just read
ElemAfterValue(s, acc, r) ==
    IF ~r.ok THEN Fail
    ELSE CASE Ch(s, SkipWs(s, r.i)) = "," ->
                ParseElems(s, SkipWs(s, r.i) + 1, Append(acc, r.v))
           [] Ch(s, SkipWs(s, r.i)) = "]" ->
                Ok(PyList(Append(acc, r.v)), SkipWs(s, r.i) + 1)
           [] OTHER -> Fail

\* the members of an object from position i on; acc holds those read so far
ParseMembers(s, i, acc) ==
    IF Ch(s, SkipWs(s, i)) # "\"" THEN Fail
    ELSE MemberAfterKey(s, acc, ParseString(s, SkipWs(s, i) + 1, ""))

\* k is the key just read
MemberAfterKey(s, acc, k) ==
    IF ~k.ok THEN Fail
    ELSE IF Ch(s, SkipWs(s, k.i)) # ":" THEN Fail
    ELSE MemberAfterValue(s, acc, k.v.s, ParseValue(s, SkipWs(s, k.i) + 1))

\* r is the value just read for key
MemberAfterValue(s, acc, key, r) ==
    IF ~r.ok THEN Fail
    ELSE CASE Ch(s, SkipWs(s, r.i)) = "," ->
                ParseMembers(s, SkipWs(s, r.i) + 1, DictPut(acc, key, r.v))
           [] Ch(s, SkipWs(s, r.i)) = "}" ->
                Ok(DictPut(acc, key, r.v), SkipWs(s, r.i) + 1)
           [] OTHER -> Fail

\* the whole text must be one value: r is the value read from position 1
WholeText(text, r) ==
    IF r.ok /\ SkipWs(text, r.i) > Len(text) THEN [ok |-> TRUE, v |-> r.v]
    ELSE [ok |-> FALSE, v |-> PyNone]

\* json.loads(text): ok = FALSE stands for json.JSONDecodeError
Loads(text) == WholeText(text, ParseValue(text, 1))

(***************************************************************************)
(* State.                                                                  *)
(*   adapters : the AxioraAPIWrapper objects constructed so far            *)
(*   clients  : the httpx.Client / httpx.AsyncClient objects created so far*)
(*   tools    : the constructed tool facades, each bound to an adapter     *)
(*   retriever: the AxioraRetriever object                                 *)
(*   wire     : the last HTTP request handed to an httpx client            *)
(*   sent     : number of HTTP requests issued so far                      *)
(*   last     : what the last invocation was given and what it produced    *)
(*   prev     : the outcome before `last` (kept by SpecPaths only)         *)
(*   inp      : the arguments and server reply fixed for a run of SpecPaths*)
(*   env      : the environment variable AXIORA_API_KEY                    *)
(*   toolkits : the AxioraToolkit objects constructed so far               *)
(***************************************************************************)
VARIABLES adapters, clients, tools, retriever, wire, sent, last, prev, inp, env, toolkits,
          threads

vars == <<adapters, clients, tools, retriever, wire, sent, last, prev, inp, env, toolkits,
          threads>>

MaxCalls == 3

\* api_wrapper.py: DEFAULT_BASE_URL, timeout default
DEFAULT_BASE_URL == "https://api.axiora.dev/v1"
DefaultTimeout == 30
Version == "0.1.0"

\* a parameter mapping with no entry
EmptyMap == [k \in {} |-> PyNone]
\* the `params` argument of request: not given (None) or a mapping
NoParams == [some |-> FALSE, map |-> EmptyMap]
Params(m) == [some |-> TRUE, map |-> m]

\* what the network gives back for one HTTP request
NoNet == [kind |-> "none", status |-> 0, text |-> ""]
Response(status, text) == [kind |-> "response", status |-> status, text |-> text]
TransportFailure == [kind |-> "transport", status |-> 0, text |-> ""]

NoCall == [method |-> "", path |-> "", params |-> NoParams]
NoWire == [client |-> 0, method |-> "", url |-> "", params |-> EmptyMap]

\* results of a call: a returned value or a raised exception
Returned(v) == [kind |-> "return", value |-> v, msg |-> "", resp |-> NoNet,
                detail |-> PyNone, hint |-> ""]
Raised(exc, msg, resp) == [kind |-> exc, value |-> PyNone, msg |-> msg, resp |-> resp,
                           detail |-> PyNone, hint |-> ""]

NoOutcome == [op |-> "", mode |-> "", cls |-> "", targs |-> <<>>, call |-> NoCall,
              net |-> NoNet, res |-> Raised("", "", NoNet)]
Outcome(op, mode, cls, targs, call, net, res) ==
    [op |-> op, mode |-> mode, cls |-> cls, targs |-> targs, call |-> call,
     net |-> net, res |-> res]

(***************************************************************************)
(* AxioraAPIWrapper (api_wrapper.py).  The heap h = [adapters, clients]    *)
(* is passed explicitly: a method maps the heap before the call to the     *)
(* heap after it together with what the call produced.                     *)
(***************************************************************************)
Heap == [adapters |-> adapters, clients |-> clients]

NewAdapter(key, url) ==
    [api_key |-> key, base_url |-> url, timeout |-> DefaultTimeout,
     sync |-> 0, async |-> 0]

_headers(h, a) ==
    [Authorization |-> "Bearer " \o h.adapters[a].api_key,
     UserAgent |-> "langchain-axiora/" \o Version,
     Accept |-> "application/json"]

\* variant: drops every falsy value (`if v`)
CleanDroppingFalsy(params) ==
    [k \in {x \in DOMAIN params : Truthy(params[x])} |-> params[k]]

_clean(params) ==
    [k \in {x \in DOMAIN params : params[x] # PyNone} |-> params[k]]

\* `params or {}`
OrEmpty(params) ==
    IF params.some /\ DOMAIN params.map # {} THEN params.map ELSE EmptyMap

\* httpx.Client(headers=self._headers(), timeout=self.timeout)
NewClient(h, a, mode) ==
    [owner |-> a, mode |-> mode, headers |-> _headers(h, a),
     timeout |-> h.adapters[a].timeout, closed |-> FALSE]

\* variant: no `is None` test
SyncClientAlwaysNew(h, a) ==
    [id |-> Len(h.clients) + 1,
     h |-> [adapters |-> [h.adapters EXCEPT ![a].sync = Len(h.clients) + 1],
            clients |-> Append(h.clients, NewClient(h, a, "sync"))]]

sync_client(h, a) ==
    IF h.adapters[a].sync = 0
    THEN [id |-> Len(h.clients) + 1,
          h |-> [adapters |-> [h.adapters EXCEPT ![a].sync = Len(h.clients) + 1],
                 clients |-> Append(h.clients, NewClient(h, a, "sync"))]]
    ELSE [id |-> h.adapters[a].sync, h |-> h]

async_client(h, a) ==
    IF h.adapters[a].async = 0
    THEN [id |-> Len(h.clients) + 1,
          h |-> [adapters |-> [h.adapters EXCEPT ![a].async = Len(h.clients) + 1],
                 clients |-> Append(h.clients, NewClient(h, a, "async"))]]
    ELSE [id |-> h.adapters[a].async, h |-> h]

\* variant: only 4xx and 5xx count as errors
IsSuccessBelow400(status) == status >= 200 /\ status < 400

\* httpx.Response.is_success, which raise_for_status() tests
IsSuccess(status) == status >= 200 /\ status <= 299

\* return resp.json()
Json(body) ==
    IF body.ok THEN Returned(body.v) ELSE Raised("JSONDecodeError", "", NoNet)

\* client.request(...) ; resp.raise_for_status() ; return resp.json()
Receive(net) ==
    IF net.kind = "transport" THEN Raised("TransportError", "", NoNet)
    ELSE IF ~IsSuccess(net.status) THEN Raised("HTTPStatusError", "", net)
    ELSE Json(Loads(net.text))

\* the HTTP request handed to client c
Wire(c, method, url, params) ==
    [client |-> c, method |-> method, url |-> url, params |-> params]

\* what a call did: the heap after it, the last request put on the wire,
\* the number of HTTP requests it issued, and its result
Effect(h, wireAfter, sends, res) ==
    [h |-> h, wire |-> wireAfter, sends |-> sends, res |-> res]

\* variant: a failed request is sent a second time
RequestWithRetry(h, a, method, path, params, net) ==
    LET url == RStrip(h.adapters[a].base_url, "/") \o path
        c == sync_client(h, a)
    IN  Effect(c.h, Wire(c.id, method, url, _clean(OrEmpty(params))),
               IF Receive(net).kind = "return" THEN 1 ELSE 2, Receive(net))

\* variant: a failed call closes the client and forgets it
RequestDroppingClientOnError(h, a, method, path, params, net) ==
    LET url == RStrip(h.adapters[a].base_url, "/") \o path
        c == sync_client(h, a)
    IN  Effect(IF Receive(net).kind = "return" THEN c.h
               ELSE [adapters |-> [c.h.adapters EXCEPT ![a].sync = 0],
                     clients |-> [c.h.clients EXCEPT ![c.id].closed = TRUE]],
               Wire(c.id, method, url, _clean(OrEmpty(params))), 1, Receive(net))

request(h, a, method, path, params, net) ==
    LET url == RStrip(h.adapters[a].base_url, "/") \o path
        c == sync_client(h, a)
    IN  Effect(c.h, Wire(c.id, method, url, _clean(OrEmpty(params))), 1, Receive(net))

\* variant: the non-blocking call goes through the sync client
ArequestOnSyncClient(h, a, method, path, params, net) ==
    LET url == RStrip(h.adapters[a].base_url, "/") \o path
        c == sync_client(h, a)
    IN  Effect(c.h, Wire(c.id, method, url, _clean(OrEmpty(params))), 1, Receive(net))

arequest(h, a, method, path, params, net) ==
    LET url == RStrip(h.adapters[a].base_url, "/") \o path
        c == async_client(h, a)
    IN  Effect(c.h, Wire(c.id, method, url, _clean(OrEmpty(params))), 1, Receive(net))

(***************************************************************************)
(* Tool facades (tools.py).  An argument record has one field per          *)
(* parameter of _run/_arun; Omitted marks an argument the caller left out, *)
(* for which the signature's default applies.                              *)
(***************************************************************************)
Omitted == [t |-> "omitted", n |-> 0, s |-> "", keys |-> <<>>, kids |-> <<>>]
Arg(v, default) == IF v = Omitted THEN default ELSE v

\* Python str(x) / f"{x}" for scalars
str(v) ==
    CASE v.t = "str"  -> v.s
      [] v.t = "int"  -> ToString(v.n)
      [] v.t = "bool" -> (IF v.n = 1 THEN "True" ELSE "False")
      [] v.t = "none" -> "None"

\* ",".join(xs) for a list of str
CommaJoin(xs) == PyStr(Join([i \in 1..Len(xs.kids) |-> xs.kids[i].s], ","))

Get(path, params) == [method |-> "GET", path |-> path, params |-> params]

SearchCompaniesTool_run(a) ==
    Get("/companies/search",
        Params([query |-> a.query,
                sector |-> Arg(a.sector, PyNone),
                limit |-> Arg(a.limit, PyInt(10))]))

\* variant: another default for limit on the non-blocking path
SearchCompaniesToolArunLimit20(a) ==
    Get("/companies/search",
        Params([query |-> a.query,
                sector |-> Arg(a.sector, PyNone),
                limit |-> Arg(a.limit, PyInt(20))]))

SearchCompaniesTool_arun(a) ==
    Get("/companies/search",
        Params([query |-> a.query,
                sector |-> Arg(a.sector, PyNone),
                limit |-> Arg(a.limit, PyInt(10))]))

GetCompanyTool_run(a) ==
    Get("/companies/" \o str(a.code),
        NoParams)

GetCompanyTool_arun(a) ==
    Get("/companies/" \o str(a.code),
        NoParams)

GetFinancialsTool_run(a) ==
    Get("/companies/" \o str(a.code) \o "/financials",
        Params([years |-> Arg(a.years, PyInt(5))]))

GetFinancialsTool_arun(a) ==
    Get("/companies/" \o str(a.code) \o "/financials",
        Params([years |-> Arg(a.years, PyInt(5))]))

GetGrowthTool_run(a) ==
    Get("/companies/" \o str(a.code) \o "/growth",
        Params([years |-> Arg(a.years, PyInt(5))]))

GetGrowthTool_arun(a) ==
    Get("/companies/" \o str(a.code) \o "/growth",
        Params([years |-> Arg(a.years, PyInt(5))]))

GetRankingTool_run(a) ==
    Get("/rankings/" \o str(Arg(a.metric, PyStr("revenue"))),
        Params([sector |-> Arg(a.sector, PyNone),
                order |-> Arg(a.order, PyStr("desc")),
                limit |-> Arg(a.limit, PyInt(20))]))

GetRankingTool_arun(a) ==
    Get("/rankings/" \o str(Arg(a.metric, PyStr("revenue"))),
        Params([sector |-> Arg(a.sector, PyNone),
                order |-> Arg(a.order, PyStr("desc")),
                limit |-> Arg(a.limit, PyInt(20))]))

GetSectorOverviewTool_run(a) ==
    IF Truthy(Arg(a.sector, PyNone))
    THEN Get("/sectors/" \o str(a.sector), NoParams)
    ELSE Get("/sectors", NoParams)

GetSectorOverviewTool_arun(a) ==
    IF Truthy(Arg(a.sector, PyNone))
    THEN Get("/sectors/" \o str(a.sector), NoParams)
    ELSE Get("/sectors", NoParams)

\* variant: the documented limits (2-5 codes, at most 10 years) are enforced
CompareCompaniesToolRunCapped(a) ==
    Get("/compare",
        Params([codes |-> CommaJoin(PyList(SubSeq(a.codes.kids, 1,
                                   IF Len(a.codes.kids) > 5 THEN 5 ELSE Len(a.codes.kids)))),
                years |-> IF Arg(a.years, PyInt(3)).n > 10 THEN PyInt(10)
                          ELSE Arg(a.years, PyInt(3))]))

CompareCompaniesTool_run(a) ==
    Get("/compare",
        Params([codes |-> CommaJoin(a.codes),
                years |-> Arg(a.years, PyInt(3))]))

CompareCompaniesTool_arun(a) ==
    Get("/compare",
        Params([codes |-> CommaJoin(a.codes),
                years |-> Arg(a.years, PyInt(3))]))

ScreenCompaniesTool_run(a) ==
    Get("/screen",
        Params([sector |-> Arg(a.sector, PyNone),
                min_revenue |-> Arg(a.min_revenue, PyNone),
                min_net_income |-> Arg(a.min_net_income, PyNone),
                min_roe |-> Arg(a.min_roe, PyNone),
                max_pe_ratio |-> Arg(a.max_pe_ratio, PyNone),
                limit |-> Arg(a.limit, PyInt(20))]))

ScreenCompaniesTool_arun(a) ==
    Get("/screen",
        Params([sector |-> Arg(a.sector, PyNone),
                min_revenue |-> Arg(a.min_revenue, PyNone),
                min_net_income |-> Arg(a.min_net_income, PyNone),
                min_roe |-> Arg(a.min_roe, PyNone),
                max_pe_ratio |-> Arg(a.max_pe_ratio, PyNone),
                limit |-> Arg(a.limit, PyInt(20))]))

GetHealthScoreTool_run(a) ==
    Get("/companies/" \o str(a.code) \o "/health",
        NoParams)

GetHealthScoreTool_arun(a) ==
    Get("/companies/" \o str(a.code) \o "/health",
        NoParams)

GetHealthRankingTool_run(a) ==
    Get("/rankings/health",
        Params([sector |-> Arg(a.sector, PyNone),
                order |-> Arg(a.order, PyStr("desc")),
                limit |-> Arg(a.limit, PyInt(20))]))

GetHealthRankingTool_arun(a) ==
    Get("/rankings/health",
        Params([sector |-> Arg(a.sector, PyNone),
                order |-> Arg(a.order, PyStr("desc")),
                limit |-> Arg(a.limit, PyInt(20))]))

GetPeersTool_run(a) ==
    Get("/companies/" \o str(a.code) \o "/peers",
        Params([limit |-> Arg(a.limit, PyInt(10))]))

GetPeersTool_arun(a) ==
    Get("/companies/" \o str(a.code) \o "/peers",
        Params([limit |-> Arg(a.limit, PyInt(10))]))

GetTimeseriesTool_run(a) ==
    Get("/timeseries",
        Params([codes |-> CommaJoin(a.codes),
                metric |-> Arg(a.metric, PyStr("revenue")),
                years |-> Arg(a.years, PyInt(10))]))

GetTimeseriesTool_arun(a) ==
    Get("/timeseries",
        Params([codes |-> CommaJoin(a.codes),
                metric |-> Arg(a.metric, PyStr("revenue")),
                years |-> Arg(a.years, PyInt(10))]))

ListFilingsTool_run(a) ==
    Get("/filings",
        Params([company_code |-> Arg(a.company_code, PyNone),
                doc_type |-> Arg(a.doc_type, PyNone),
                limit |-> Arg(a.limit, PyInt(20))]))

ListFilingsTool_arun(a) ==
    Get("/filings",
        Params([company_code |-> Arg(a.company_code, PyNone),
                doc_type |-> Arg(a.doc_type, PyNone),
                limit |-> Arg(a.limit, PyInt(20))]))

GetTranslationsTool_run(a) ==
    Get("/translations/" \o str(a.doc_id),
        Params([section |-> Arg(a.section, PyNone)]))

GetTranslationsTool_arun(a) ==
    Get("/translations/" \o str(a.doc_id),
        Params([section |-> Arg(a.section, PyNone)]))

SearchTranslationsTool_run(a) ==
    Get("/translations/search",
        Params([query |-> a.query,
                section |-> Arg(a.section, PyNone),
                limit |-> Arg(a.limit, PyInt(10))]))

SearchTranslationsTool_arun(a) ==
    Get("/translations/search",
        Params([query |-> a.query,
                section |-> Arg(a.section, PyNone),
                limit |-> Arg(a.limit, PyInt(10))]))

GetFilingCalendarTool_run(a) ==
    Get("/filings/calendar",
        Params([month |-> a.month]))

GetFilingCalendarTool_arun(a) ==
    Get("/filings/calendar",
        Params([month |-> a.month]))

SearchCompaniesBatchTool_run(a) ==
    Get("/companies/search",
        Params([queries |-> CommaJoin(a.queries)]))

SearchCompaniesBatchTool_arun(a) ==
    Get("/companies/search",
        Params([queries |-> CommaJoin(a.queries)]))

GetCoverageTool_run(a) ==
    Get("/coverage",
        NoParams)

GetCoverageTool_arun(a) ==
    Get("/coverage",
        NoParams)

ALL_TOOLS ==
    <<"SearchCompaniesTool",
      "GetCompanyTool",
      "GetFinancialsTool",
      "GetGrowthTool",
      "GetRankingTool",
      "GetSectorOverviewTool",
      "CompareCompaniesTool",
      "ScreenCompaniesTool",
      "GetHealthScoreTool",
      "GetHealthRankingTool",
      "GetPeersTool",
      "GetTimeseriesTool",
      "ListFilingsTool",
      "GetTranslationsTool",
      "SearchTranslationsTool",
      "GetFilingCalendarTool",
      "SearchCompaniesBatchTool",
      "GetCoverageTool">>

\* the adapter call made by cls._run(**a)
RunCall(cls, a) ==
    CASE cls = "SearchCompaniesTool" -> SearchCompaniesTool_run(a)
      [] cls = "GetCompanyTool" -> GetCompanyTool_run(a)
      [] cls = "GetFinancialsTool" -> GetFinancialsTool_run(a)
      [] cls = "GetGrowthTool" -> GetGrowthTool_run(a)
      [] cls = "GetRankingTool" -> GetRankingTool_run(a)
      [] cls = "GetSectorOverviewTool" -> GetSectorOverviewTool_run(a)
      [] cls = "CompareCompaniesTool" -> CompareCompaniesTool_run(a)
      [] cls = "ScreenCompaniesTool" -> ScreenCompaniesTool_run(a)
      [] cls = "GetHealthScoreTool" -> GetHealthScoreTool_run(a)
      [] cls = "GetHealthRankingTool" -> GetHealthRankingTool_run(a)
      [] cls = "GetPeersTool" -> GetPeersTool_run(a)
      [] cls = "GetTimeseriesTool" -> GetTimeseriesTool_run(a)
      [] cls = "ListFilingsTool" -> ListFilingsTool_run(a)
      [] cls = "GetTranslationsTool" -> GetTranslationsTool_run(a)
      [] cls = "SearchTranslationsTool" -> SearchTranslationsTool_run(a)
      [] cls = "GetFilingCalendarTool" -> GetFilingCalendarTool_run(a)
      [] cls = "SearchCompaniesBatchTool" -> SearchCompaniesBatchTool_run(a)
      [] cls = "GetCoverageTool" -> GetCoverageTool_run(a)

\* the adapter call made by cls._arun(**a)
ArunCall(cls, a) ==
    CASE cls = "SearchCompaniesTool" -> SearchCompaniesTool_arun(a)
      [] cls = "GetCompanyTool" -> GetCompanyTool_arun(a)
      [] cls = "GetFinancialsTool" -> GetFinancialsTool_arun(a)
      [] cls = "GetGrowthTool" -> GetGrowthTool_arun(a)
      [] cls = "GetRankingTool" -> GetRankingTool_arun(a)
      [] cls = "GetSectorOverviewTool" -> GetSectorOverviewTool_arun(a)
      [] cls = "CompareCompaniesTool" -> CompareCompaniesTool_arun(a)
      [] cls = "ScreenCompaniesTool" -> ScreenCompaniesTool_arun(a)
      [] cls = "GetHealthScoreTool" -> GetHealthScoreTool_arun(a)
      [] cls = "GetHealthRankingTool" -> GetHealthRankingTool_arun(a)
      [] cls = "GetPeersTool" -> GetPeersTool_arun(a)
      [] cls = "GetTimeseriesTool" -> GetTimeseriesTool_arun(a)
      [] cls = "ListFilingsTool" -> ListFilingsTool_arun(a)
      [] cls = "GetTranslationsTool" -> GetTranslationsTool_arun(a)
      [] cls = "SearchTranslationsTool" -> SearchTranslationsTool_arun(a)
      [] cls = "GetFilingCalendarTool" -> GetFilingCalendarTool_arun(a)
      [] cls = "SearchCompaniesBatchTool" -> SearchCompaniesBatchTool_arun(a)
      [] cls = "GetCoverageTool" -> GetCoverageTool_arun(a)

(***************************************************************************)
(* Error translator (tools.py)                                             *)
(***************************************************************************)
_HTTP_ERROR_HINTS ==
    (401 :> "Invalid or missing API key. Check your AXIORA_API_KEY.") @@
    (403 :> "Access denied. Your plan may not include this endpoint.") @@
    (404 :> "Not found. Use axiora_search_companies to find the correct code.") @@
    (429 :> "Rate limit exceeded. Wait a moment before retrying.")

\* variant: unmapped 4xx codes borrow the 404 hint
HintForClass(status) ==
    IF status \in DOMAIN _HTTP_ERROR_HINTS THEN _HTTP_ERROR_HINTS[status]
    ELSE IF status \div 100 = 4 THEN _HTTP_ERROR_HINTS[404] ELSE ""

\* _HTTP_ERROR_HINTS.get(status, "")
HintFor(status) ==
    IF status \in DOMAIN _HTTP_ERROR_HINTS THEN _HTTP_ERROR_HINTS[status] ELSE ""

DetailMax == 200

\* variant: `error` consulted before `detail`
DetailPreferringError(text, body) ==
    IF body.ok /\ body.v.t = "dict"
    THEN DictGet(body.v, "error", DictGet(body.v, "detail", PyStr("")))
    ELSE PyStr(Take(text, 200))

\* variant: `error` is used whenever `detail` is missing or falsy
DetailFallingBackWhenEmpty(text, body) ==
    IF body.ok /\ body.v.t = "dict"
    THEN (IF Truthy(DictGet(body.v, "detail", PyNone))
          THEN DictGet(body.v, "detail", PyNone)
          ELSE DictGet(body.v, "error", PyStr("")))
    ELSE PyStr(Take(text, DetailMax))

\* try: body = exc.response.json(); detail = body.get("detail", body.get("error", ""))
\* except Exception: detail = exc.response.text[:200]
\* (body is what json() made of the text)
DetailFrom(text, body) ==
    IF body.ok /\ body.v.t = "dict"
    THEN DictGet(body.v, "detail", DictGet(body.v, "error", PyStr("")))
    ELSE PyStr(Take(text, DetailMax))

DetailOf(resp) == DetailFrom(resp.text, Loads(resp.text))

\* variant: the detail segment is appended without the `if detail` test
ErrorPartsAlways(status, detail, hint) ==
    <<"Axiora API error " \o ToString(status), str(detail)>>
    \o (IF hint # "" THEN <<hint>> ELSE <<>>)

\* parts = [...]; if detail: ...; if hint: ...
ErrorParts(status, detail, hint) ==
    <<"Axiora API error " \o ToString(status)>>
    \o (IF Truthy(detail) THEN <<str(detail)>> ELSE <<>>)
    \o (IF hint # "" THEN <<hint>> ELSE <<>>)

\* raise ToolException(". ".join(parts)) from exc
ToolException(resp, detail, hint) ==
    [kind |-> "ToolException",
     value |-> PyNone,
     msg |-> Join(ErrorParts(resp.status, detail, hint), ". "),
     resp |-> resp,
     detail |-> detail,
     hint |-> hint]

_handle_http_error(resp) == ToolException(resp, DetailOf(resp), HintFor(resp.status))

\* try: return _fmt(<adapter call>) except httpx.HTTPStatusError as exc: ...
\* e is the effect of the adapter call
TryRun(e) ==
    [e EXCEPT !.res = IF e.res.kind = "return" THEN Returned(PyStr(_fmt(e.res.value)))
                      ELSE IF e.res.kind = "HTTPStatusError"
                           THEN _handle_http_error(e.res.resp)
                      ELSE e.res]

\* variant: no except clause on the non-blocking path
TryArunPropagating(e) ==
    [e EXCEPT !.res = IF e.res.kind = "return" THEN Returned(PyStr(_fmt(e.res.value)))
                      ELSE e.res]

TryArun(e) ==
    [e EXCEPT !.res = IF e.res.kind = "return" THEN Returned(PyStr(_fmt(e.res.value)))
                      ELSE IF e.res.kind = "HTTPStatusError"
                           THEN _handle_http_error(e.res.resp)
                      ELSE e.res]

\* self.api.request(...) / self.api.arequest(...) with the call a tool built
ApiRequest(h, a, call, net) == request(h, a, call.method, call.path, call.params, net)
ApiARequest(h, a, call, net) == arequest(h, a, call.method, call.path, call.params, net)

\* tool._run(**a) / tool._arun(**a) for the facade tool = [cls, api]
_run(h, tool, a, net) == TryRun(ApiRequest(h, tool.api, RunCall(tool.cls, a), net))

_arun(h, tool, a, net) == TryArun(ApiARequest(h, tool.api, ArunCall(tool.cls, a), net))

(***************************************************************************)
(* Construction (api_wrapper.py, tools.py).  A constructor argument is     *)
(* Omitted when the caller leaves it out.                                  *)
(***************************************************************************)
\* os.environ: AXIORA_API_KEY not set, or set to a value
NoEnv == [set |-> FALSE, value |-> ""]
EnvVar(v) == [set |-> TRUE, value |-> v]

KeyErrorMessage ==
    "Axiora API key not found. Set the AXIORA_API_KEY environment variable "
    \o "or pass api_key= to the constructor."

\* variant: an unset variable gives the empty credential
SecretFromEnvOrEmpty(e) == Returned(PyStr(e.value))

\* langchain_core.utils.secret_from_env("AXIORA_API_KEY", error_message=...)()
secret_from_env(e) ==
    IF e.set THEN Returned(PyStr(e.value))
    ELSE Raised("ValueError", KeyErrorMessage, NoNet)

\* variant: the environment is consulted before the argument
ApiKeyEnvFirst(key, e) ==
    IF e.set THEN Returned(PyStr(e.value))
    ELSE IF key # Omitted THEN Returned(key)
    ELSE secret_from_env(e)

\* the field api_key: the argument when given, else default_factory()
api_key(key, e) == IF key # Omitted THEN Returned(key) ELSE secret_from_env(e)

\* what a constructor gives: the heap after it, the object built (0: none),
\* and Returned(object) or the error raised
Built(h, id, res) == [h |-> h, id |-> id, res |-> res]

\* k is the resolved field api_key
AdapterWith(h, k, url) ==
    IF k.kind # "return" THEN Built(h, 0, k)
    ELSE Built([h EXCEPT !.adapters =
                    Append(@, NewAdapter(k.value.s, Arg(url, PyStr(DEFAULT_BASE_URL)).s))],
               Len(h.adapters) + 1, Returned(PyInt(Len(h.adapters) + 1)))

\* AxioraAPIWrapper(api_key=key, base_url=url)
AxioraAPIWrapper(h, key, url, e) == AdapterWith(h, api_key(key, e), url)

\* values.pop(name, None) ; if value is not None: kwargs[name] = value
KwArg(v) == IF v = PyNone THEN Omitted ELSE v

\* variant: the supplied adapter is validated into a copy
BuildApiWrapperCopying(h, values, e) ==
    IF values.api = 0
    THEN AxioraAPIWrapper(h, KwArg(values.api_key), KwArg(values.base_url), e)
    ELSE Built([h EXCEPT !.adapters = Append(@, h.adapters[values.api])],
               Len(h.adapters) + 1, Returned(PyInt(Len(h.adapters) + 1)))

\* _AxioraBaseTool._build_api_wrapper: values.api is the adapter supplied
\* (0: none); the result names the adapter the facade holds
_build_api_wrapper(h, values, e) ==
    IF values.api = 0
    THEN AxioraAPIWrapper(h, KwArg(values.api_key), KwArg(values.base_url), e)
    ELSE Built(h, values.api, Returned(PyInt(values.api)))

(***************************************************************************)
(* AxioraRetriever (retriever.py)                                          *)
(***************************************************************************)
NewRetriever(key, url, section, k) ==
    [api_key |-> key, base_url |-> url, section |-> section, k |-> k, api |-> 0]

\* before any retriever is constructed
NoRetriever == NewRetriever("", "", PyNone, 0)

\* AxioraRetriever(api_key=key, base_url=url, section=section, k=k); obj is
\* the retriever when res is no error
AxioraRetriever(key, url, section, k, e) ==
    [res |-> api_key(key, e),
     obj |-> NewRetriever(api_key(key, e).value.s, Arg(url, PyStr(DEFAULT_BASE_URL)).s,
                          section, k)]

\* the _wrapper property: builds the adapter on first use
_wrapper(h, R) ==
    IF R.api = 0
    THEN [id |-> Len(h.adapters) + 1,
          h |-> [h EXCEPT !.adapters = Append(@, NewAdapter(R.api_key, R.base_url))],
          R |-> [R EXCEPT !.api = Len(h.adapters) + 1]]
    ELSE [id |-> R.api, h |-> h, R |-> R]

Document(content, metadata) ==
    PyDict(<<"page_content", "metadata">>, <<content, metadata>>)

\* variant: null values are kept
MetadataKeepingNulls(item) ==
    LET keep == SelectSeq([i \in 1..Len(item.keys) |-> i],
                    LAMBDA i : item.keys[i] \notin {"content", "snippet"})
    IN  PyDict([j \in 1..Len(keep) |-> item.keys[keep[j]]],
               [j \in 1..Len(keep) |-> item.kids[keep[j]]])

\* {k: v for k, v in item.items() if k not in ("content", "snippet") and v is not None}
Metadata(item) ==
    LET keep == SelectSeq([i \in 1..Len(item.keys) |-> i],
                    LAMBDA i : item.keys[i] \notin {"content", "snippet"}
                               /\ item.kids[i] # PyNone)
    IN  PyDict([j \in 1..Len(keep) |-> item.keys[keep[j]]],
               [j \in 1..Len(keep) |-> item.kids[keep[j]]])

\* the loop of _to_documents from item i on; docs is the list built so far
RECURSIVE ToDocumentsFrom(_, _, _)
ToDocumentsFrom(items, i, docs) ==
    IF i > Len(items) THEN Returned(PyList(docs))
    ELSE LET item == items[i] IN
         IF item.t # "dict" THEN Raised("AttributeError", "", NoNet)
         ELSE LET content == DictGet(item, "content", DictGet(item, "snippet", PyStr("")))
              IN  IF content.t # "str" THEN Raised("ValidationError", "", NoNet)
                  ELSE ToDocumentsFrom(items, i + 1,
                                       Append(docs, Document(content, Metadata(item))))

_to_documents(result) ==
    LET items == IF result.t = "dict" THEN DictGet(result, "data", PyList(<<>>))
                 ELSE PyList(<<>>)
    IN  CASE items.t = "list" -> ToDocumentsFrom(items.kids, 1, <<>>)
          [] items.t = "dict" ->
               IF items.keys = <<>> THEN Returned(PyList(<<>>))
               ELSE Raised("AttributeError", "", NoNet)
          [] items.t = "str" ->
               IF items.s = "" THEN Returned(PyList(<<>>))
               ELSE Raised("AttributeError", "", NoNet)
          [] OTHER -> Raised("TypeError", "", NoNet)

\* params = {"q": query, "limit": self.k}; if self.section: params["section"] = ...
\* variant: the mapping the search-translations tool builds
RetrieverParamsAsTool(R, query) ==
    Params([query |-> PyStr(query), section |-> R.section, limit |-> PyInt(R.k)])

RetrieverParams(R, query) ==
    IF Truthy(R.section)
    THEN Params([q |-> PyStr(query), limit |-> PyInt(R.k), section |-> R.section])
    ELSE Params([q |-> PyStr(query), limit |-> PyInt(R.k)])

ARetrieverParams(R, query) ==
    IF Truthy(R.section)
    THEN Params([q |-> PyStr(query), limit |-> PyInt(R.k), section |-> R.section])
    ELSE Params([q |-> PyStr(query), limit |-> PyInt(R.k)])

\* variant: no except clause
DocumentsPropagating(e, R) ==
    [h |-> e.h, wire |-> e.wire, sends |-> e.sends, R |-> R,
     res |-> IF e.res.kind = "return" THEN _to_documents(e.res.value) ELSE e.res]

\* try: result = ... except httpx.HTTPStatusError: return [] ; return
\* self._to_documents(result).  e is the effect of the adapter call, R the
\* retriever after self._wrapper
Documents(e, R) ==
    [h |-> e.h, wire |-> e.wire, sends |-> e.sends, R |-> R,
     res |-> IF e.res.kind = "HTTPStatusError" THEN Returned(PyList(<<>>))
             ELSE IF e.res.kind = "return" THEN _to_documents(e.res.value)
             ELSE e.res]

\* variant: `except Exception: return []`
ADocumentsCatchingAll(e, R) ==
    [h |-> e.h, wire |-> e.wire, sends |-> e.sends, R |-> R,
     res |-> IF e.res.kind = "return" THEN _to_documents(e.res.value)
             ELSE Returned(PyList(<<>>))]

ADocuments(e, R) ==
    [h |-> e.h, wire |-> e.wire, sends |-> e.sends, R |-> R,
     res |-> IF e.res.kind = "HTTPStatusError" THEN Returned(PyList(<<>>))
             ELSE IF e.res.kind = "return" THEN _to_documents(e.res.value)
             ELSE e.res]

_get_relevant_documents(h, R, query, net) ==
    Documents(request(_wrapper(h, R).h, _wrapper(h, R).id, "GET", "/translations/search",
                      RetrieverParams(R, query), net),
              _wrapper(h, R).R)

_aget_relevant_documents(h, R, query, net) ==
    ADocuments(arequest(_wrapper(h, R).h, _wrapper(h, R).id, "GET", "/translations/search",
                        ARetrieverParams(R, query), net),
               _wrapper(h, R).R)

(***************************************************************************)
(* AxioraToolkit (toolkit.py)                                              *)
(***************************************************************************)
\* the `name` field of each tool class
ToolName(cls) ==
    CASE cls = "SearchCompaniesTool" -> "axiora_search_companies"
      [] cls = "GetCompanyTool" -> "axiora_get_company"
      [] cls = "GetFinancialsTool" -> "axiora_get_financials"
      [] cls = "GetGrowthTool" -> "axiora_get_growth"
      [] cls = "GetRankingTool" -> "axiora_get_ranking"
      [] cls = "GetSectorOverviewTool" -> "axiora_get_sector_overview"
      [] cls = "CompareCompaniesTool" -> "axiora_compare_companies"
      [] cls = "ScreenCompaniesTool" -> "axiora_screen_companies"
      [] cls = "GetHealthScoreTool" -> "axiora_get_health_score"
      [] cls = "GetHealthRankingTool" -> "axiora_get_health_ranking"
      [] cls = "GetPeersTool" -> "axiora_get_peers"
      [] cls = "GetTimeseriesTool" -> "axiora_get_timeseries"
      [] cls = "ListFilingsTool" -> "axiora_list_filings"
      [] cls = "GetTranslationsTool" -> "axiora_get_translations"
      [] cls = "SearchTranslationsTool" -> "axiora_search_translations"
      [] cls = "GetFilingCalendarTool" -> "axiora_get_filing_calendar"
      [] cls = "SearchCompaniesBatchTool" -> "axiora_search_companies_batch"
      [] cls = "GetCoverageTool" -> "axiora_get_coverage"

\* variant: the field is left at BaseTool's default
HandleToolErrorDefault(cls) == FALSE

\* _AxioraBaseTool.handle_tool_error, inherited by every tool class
handle_tool_error(cls) == TRUE

\* the `args_schema` field of each tool class ("" where the class declares none)
args_schema(cls) ==
    CASE cls = "SearchCompaniesTool" -> "SearchCompaniesInput"
      [] cls = "GetCompanyTool" -> "GetCompanyInput"
      [] cls = "GetFinancialsTool" -> "GetFinancialsInput"
      [] cls = "GetGrowthTool" -> "GetGrowthInput"
      [] cls = "GetRankingTool" -> "GetRankingInput"
      [] cls = "GetSectorOverviewTool" -> "GetSectorOverviewInput"
      [] cls = "CompareCompaniesTool" -> "CompareCompaniesInput"
      [] cls = "ScreenCompaniesTool" -> "ScreenCompaniesInput"
      [] cls = "GetHealthScoreTool" -> "GetHealthScoreInput"
      [] cls = "GetHealthRankingTool" -> "GetHealthRankingInput"
      [] cls = "GetPeersTool" -> "GetPeersInput"
      [] cls = "GetTimeseriesTool" -> "GetTimeseriesInput"
      [] cls = "ListFilingsTool" -> "ListFilingsInput"
      [] cls = "GetTranslationsTool" -> "GetTranslationsInput"
      [] cls = "SearchTranslationsTool" -> "SearchTranslationsInput"
      [] cls = "GetFilingCalendarTool" -> "GetFilingCalendarInput"
      [] cls = "SearchCompaniesBatchTool" -> "SearchCompaniesBatchInput"
      [] cls = "GetCoverageTool" -> ""

_VALID_TOOL_NAMES == {ToolName(ALL_TOOLS[i]) : i \in 1..Len(ALL_TOOLS)}

\* code points of the characters that occur in names, in increasing order
Alphabet == "0123456789ABCDEFGHIJKLMNOPQRSTUVWXYZ_abcdefghijklmnopqrstuvwxyz"
Ord(c) == CHOOSE i \in 1..Len(Alphabet) : Ch(Alphabet, i) = c

\* Python a < b on str
RECURSIVE StrLess(_, _)
StrLess(a, b) ==
    IF b = "" THEN FALSE
    ELSE IF a = "" THEN TRUE
    ELSE IF Ch(a, 1) = Ch(b, 1) THEN StrLess(Tail(a), Tail(b))
    ELSE Ord(Ch(a, 1)) < Ord(Ch(b, 1))

\* Python sorted(S) for a set of str
RECURSIVE sorted(_)
sorted(S) ==
    IF S = {} THEN <<>>
    ELSE <<CHOOSE x \in S : \A y \in S \ {x} : StrLess(x, y)>>
         \o sorted(S \ {CHOOSE x \in S : \A y \in S \ {x} : StrLess(x, y)})

\* Python repr of a list of str
ListRepr(xs) == "[" \o Join([i \in 1..Len(xs) |-> "'" \o xs[i] \o "'"], ", ") \o "]"

\* sorted(_VALID_TOOL_NAMES)
SortedValidNames == sorted(_VALID_TOOL_NAMES)

NewToolkit(key, url, selected) ==
    [api_key |-> key, base_url |-> url, selected_tools |-> selected]

\* set(self.selected_tools)
NameSet(selected) == {selected.kids[i].s : i \in 1..Len(selected.kids)}

\* variant: the filter passes as soon as one of its names is valid
ValidateAnyValid(selected) ==
    IF selected # PyNone /\ NameSet(selected) # {}
       /\ NameSet(selected) \cap _VALID_TOOL_NAMES = {}
    THEN Raised("ValueError",
                "Invalid tool names: " \o ListRepr(sorted(NameSet(selected) \ _VALID_TOOL_NAMES))
                \o ". Valid names: " \o ListRepr(SortedValidNames), NoNet)
    ELSE Returned(PyNone)

\* AxioraToolkit._validate_selected_tools
_validate_selected_tools(selected) ==
    IF selected # PyNone /\ NameSet(selected) \ _VALID_TOOL_NAMES # {}
    THEN Raised("ValueError",
                "Invalid tool names: " \o ListRepr(sorted(NameSet(selected) \ _VALID_TOOL_NAMES))
                \o ". Valid names: " \o ListRepr(SortedValidNames), NoNet)
    ELSE Returned(PyNone)

\* AxioraToolkit(api_key=key, base_url=url, selected_tools=selected): the
\* fields are validated first, the validator runs after them; obj is the
\* toolkit when res is no error
AxioraToolkit(key, url, selected, e) ==
    [res |-> IF api_key(key, e).kind # "return" THEN api_key(key, e)
             ELSE _validate_selected_tools(selected),
     obj |-> NewToolkit(api_key(key, e).value.s, Arg(url, PyStr(DEFAULT_BASE_URL)).s,
                        selected)]

\* the facades tool_cls(api=api) for tool_cls in ALL_TOOLS, api the adapter
\* the effect b built
AllTools(b, e) ==
    [i \in 1..Len(ALL_TOOLS) |->
        [cls |-> ALL_TOOLS[i],
         api |-> _build_api_wrapper(b.h, [api |-> b.id, api_key |-> Omitted,
                                          base_url |-> Omitted], e).id]]

\* variant: one facade for each entry of the filter, in the filter's order
SelectedInFilterOrder(tk, all) ==
    IF tk.selected_tools = PyNone THEN [i \in 1..Len(all) |-> i]
    ELSE [i \in 1..Len(tk.selected_tools.kids) |->
             CHOOSE p \in 1..Len(all) : ToolName(all[p].cls) = tk.selected_tools.kids[i].s]

\* variant: the filter is not applied
SelectedIgnoringFilter(tk, all) == [i \in 1..Len(all) |-> i]

\* [t for t in all_tools if t.name in selected], as positions in all_tools
Selected(tk, all) ==
    IF tk.selected_tools = PyNone THEN [i \in 1..Len(all) |-> i]
    ELSE SelectSeq([i \in 1..Len(all) |-> i],
                   LAMBDA i : ToolName(all[i].cls) \in NameSet(tk.selected_tools))

\* variant: every facade gets an adapter of its own
GetToolsOwnAdapters(h, tk, e) ==
    [h |-> [h EXCEPT !.adapters =
                @ \o [i \in 1..Len(ALL_TOOLS) |-> NewAdapter(tk.api_key, tk.base_url)]],
     all |-> [i \in 1..Len(ALL_TOOLS) |->
                 [cls |-> ALL_TOOLS[i], api |-> Len(h.adapters) + i]],
     picked |-> Selected(tk, [i \in 1..Len(ALL_TOOLS) |-> [cls |-> ALL_TOOLS[i]]])]

\* variant: the adapter of an earlier call is kept and used again
GetToolsReusingAdapter(h, tk, e) ==
    IF h.adapters = <<>>
    THEN [h |-> AxioraAPIWrapper(h, PyStr(tk.api_key), PyStr(tk.base_url), e).h,
          all |-> AllTools(AxioraAPIWrapper(h, PyStr(tk.api_key), PyStr(tk.base_url), e), e),
          picked |-> Selected(tk, AllTools(AxioraAPIWrapper(h, PyStr(tk.api_key),
                                                            PyStr(tk.base_url), e), e))]
    ELSE [h |-> h,
          all |-> [i \in 1..Len(ALL_TOOLS) |->
                      [cls |-> ALL_TOOLS[i], api |-> Len(h.adapters)]],
          picked |-> Selected(tk, [i \in 1..Len(ALL_TOOLS) |-> [cls |-> ALL_TOOLS[i]]])]

\* AxioraToolkit.get_tools: the heap after the call, the facades built and
\* the positions among them of the facades returned
get_tools(h, tk, e) ==
    [h |-> AxioraAPIWrapper(h, PyStr(tk.api_key), PyStr(tk.base_url), e).h,
     all |-> AllTools(AxioraAPIWrapper(h, PyStr(tk.api_key), PyStr(tk.base_url), e), e),
     picked |-> Selected(tk, AllTools(AxioraAPIWrapper(h, PyStr(tk.api_key),
                                                       PyStr(tk.base_url), e), e))]

(***************************************************************************)
(* Representations of the objects: repr(o), str(o), str(o.model_dump())    *)
(* and json.dumps(o.model_dump(), default=str).  The credential is a       *)
(* pydantic SecretStr; of a facade only the fields name and api are shown, *)
(* its other fields are fixed by its class.                                *)
(***************************************************************************)
\* variant: the secret is displayed as it is
SecretDisplayClear(k) == k

\* SecretStr._display: what repr, str and serialization show of the secret
_secret_display(k) == IF k # "" THEN "**********" ELSE ""

ShowAdapter(a, form) ==
    CASE form = "repr" ->
            "AxioraAPIWrapper(api_key=SecretStr('" \o _secret_display(a.api_key)
            \o "'), base_url='" \o a.base_url
            \o "', timeout=" \o ToString(a.timeout) \o ".0)"
      [] form = "str" ->
            "api_key=SecretStr('" \o _secret_display(a.api_key)
            \o "') base_url='" \o a.base_url
            \o "' timeout=" \o ToString(a.timeout) \o ".0"
      [] form = "dump" ->
            "{'api_key': SecretStr('" \o _secret_display(a.api_key)
            \o "'), 'base_url': '" \o a.base_url
            \o "', 'timeout': " \o ToString(a.timeout) \o ".0}"
      [] form = "json" ->
            "{\"api_key\": \"" \o _secret_display(a.api_key)
            \o "\", \"base_url\": \"" \o a.base_url
            \o "\", \"timeout\": " \o ToString(a.timeout) \o ".0}"

\* a facade shows the adapter it holds
ShowTool(h, tool, form) ==
    CASE form = "repr" ->
            tool.cls \o "(name='" \o ToolName(tool.cls) \o "', api="
            \o ShowAdapter(h.adapters[tool.api], "repr") \o ")"
      [] form = "str" ->
            "name='" \o ToolName(tool.cls) \o "' api="
            \o ShowAdapter(h.adapters[tool.api], "repr")
      [] form = "dump" ->
            "{'name': '" \o ToolName(tool.cls) \o "', 'api': "
            \o ShowAdapter(h.adapters[tool.api], "dump") \o "}"
      [] form = "json" ->
            "{\"name\": \"" \o ToolName(tool.cls) \o "\", \"api\": "
            \o ShowAdapter(h.adapters[tool.api], "json") \o "}"

\* repr of the field selected_tools
SelectedRepr(selected) ==
    IF selected = PyNone THEN "None"
    ELSE ListRepr([i \in 1..Len(selected.kids) |-> selected.kids[i].s])

ShowToolkit(tk, form) ==
    CASE form = "repr" ->
            "AxioraToolkit(api_key=SecretStr('" \o _secret_display(tk.api_key)
            \o "'), base_url='" \o tk.base_url
            \o "', selected_tools=" \o SelectedRepr(tk.selected_tools) \o ")"
      [] form = "str" ->
            "api_key=SecretStr('" \o _secret_display(tk.api_key)
            \o "') base_url='" \o tk.base_url
            \o "' selected_tools=" \o SelectedRepr(tk.selected_tools)
      [] form = "dump" ->
            "{'api_key': SecretStr('" \o _secret_display(tk.api_key)
            \o "'), 'base_url': '" \o tk.base_url
            \o "', 'selected_tools': " \o SelectedRepr(tk.selected_tools) \o "}"
      [] form = "json" ->
            "{\"api_key\": \"" \o _secret_display(tk.api_key)
            \o "\", \"base_url\": \"" \o tk.base_url
            \o "\", \"selected_tools\": " \o Dumps(tk.selected_tools, FALSE) \o "}"

(***************************************************************************)
(* Inputs: arguments of the calls and replies of the server.               *)
(***************************************************************************)
Key == "ax_test_key"

X200 == Rep("x", 200)
Long203 == X200 \o "END"
Long200 == Rep("y", 200)

ToyotaText == "{\"data\":[{\"name\":\"Toyota\"}],\"meta\":{\"total\":1}}"
NotFoundText == "{\"detail\": \"Company not found\"}"
DocsText ==
    "{\"data\": [{\"content\": \"X\", \"company_name\": \"Toyota\", \"doc_id\": \"D1\"}, "
    \o "{\"snippet\": \"S\", \"score\": null}, {\"doc_id\": \"D3\"}]}"

\* one item with content, snippet, a null field and two other fields
BothText ==
    "{\"data\": [{\"content\": \"X\", \"snippet\": \"S\", \"score\": null, "
    \o "\"doc_id\": \"D1\", \"rank\": 0}]}"

\* bodies sent with a 2xx status
OkTexts ==
    {ToyotaText, DocsText,
     "{\"data\": {\"edinet_code\": \"E02144\", \"name_en\": \"Toyota\"}, \"meta\": {}}",
     "{\"name\": \"a\\\"b\\\\c\\nd\"}",
     "{\"name\": \"~\"}",
     "{\"name\": \"\\u65e5\"}",
     "{\"b\": 1, \"a\": 2}",
     "[1, -2, true, false, null]",
     "\"plain\"",
     "{\"data\": [{\"content\": null}]}",
     "{\"data\": [{\"content\": null, \"snippet\": \"S\"}]}",
     BothText,
     "{\"data\": [\"X\"]}",
     "{\"data\": 5}",
     "",
     "<html>"}

\* bodies sent with a non-2xx status
ErrTexts ==
    {NotFoundText,
     "{\"error\": \"boom\"}",
     "{\"detail\": \"\", \"error\": \"boom\"}",
     "{\"detail\": null, \"error\": \"boom\"}",
     "{\"detail\": \"d\", \"error\": \"e\"}",
     "{}",
     "[\"a\"]",
     "\"oops\"",
     "Not Found",
     "",
     Long203,
     Long200}

ErrStatuses == {199, 300, 400, 401, 402, 403, 404, 429, 500, 503}

NetsSmall ==
    {Response(200, ToyotaText), Response(204, ""), Response(404, NotFoundText),
     Response(500, "Not Found"), TransportFailure}

NetsAll ==
    NetsSmall
    \cup {Response(200, t) : t \in OkTexts}
    \cup {Response(st, t) : st \in {204, 299}, t \in {"", ToyotaText}}
    \cup {Response(st, t) : st \in ErrStatuses, t \in {NotFoundText, "Not Found", "{}"}}
    \cup {Response(st, t) : st \in {401, 404, 500}, t \in ErrTexts}

\* parameter mappings given to request/arequest directly
ParamValues == {PyNone, PyInt(0), PyStr(""), PyBool(FALSE), PyStr("x")}
ParamArgs ==
    {NoParams, Params(EmptyMap)}
    \cup {Params(m) : m \in [{"a"} -> ParamValues]}
    \cup {Params(m) : m \in [{"a", "b"} -> ParamValues]}
ParamArgsSmall ==
    {NoParams, Params([a |-> PyNone, b |-> PyInt(0)]), Params([a |-> PyStr("x")])}

Methods == {"GET"}
Paths == {"/coverage"}
Queries == {"Toyota"}

OptSector == {Omitted, PyStr("IT")}
AnySector == {Omitted, PyNone, PyStr(""), PyStr("IT")}
Limit == {Omitted, PyInt(0), PyInt(500)}
BigLimit == {Omitted, PyInt(500)}
Years == {Omitted, PyInt(25)}
Code == {PyStr("7203")}
\* more codes than any tool documents (compare 2-5, timeseries 1-5, batch up to 10)
ManyCodes == PyList([i \in 1..11 |-> PyStr("7203")])
CodeLists == {PyList(<<PyStr("7203")>>), PyList(<<PyStr("7203"), PyStr("6758")>>), ManyCodes}

\* the argument records tried for each tool
ToolArgs(cls) ==
    CASE cls = "SearchCompaniesTool" ->
           [query : {PyStr("Toyota")}, sector : AnySector, limit : Limit]
      [] cls = "GetCompanyTool" -> [code : Code]
      [] cls = "GetFinancialsTool" -> [code : Code, years : Years]
      [] cls = "GetGrowthTool" -> [code : Code, years : Years]
      [] cls = "GetRankingTool" ->
           [metric : {Omitted, PyStr("roe")}, sector : OptSector,
            order : {Omitted, PyStr("asc")}, limit : BigLimit]
      [] cls = "GetSectorOverviewTool" -> [sector : AnySector]
      [] cls = "CompareCompaniesTool" -> [codes : CodeLists, years : Years]
      [] cls = "ScreenCompaniesTool" ->
           [sector : OptSector, min_revenue : {Omitted, PyInt(0)},
            min_net_income : {Omitted, PyInt(1)}, min_roe : {Omitted},
            max_pe_ratio : {Omitted, PyInt(15)}, limit : BigLimit]
      [] cls = "GetHealthScoreTool" -> [code : Code]
      [] cls = "GetHealthRankingTool" ->
           [sector : OptSector, order : {Omitted, PyStr("asc")}, limit : BigLimit]
      [] cls = "GetPeersTool" -> [code : Code, limit : Limit]
      [] cls = "GetTimeseriesTool" ->
           [codes : CodeLists, metric : {Omitted, PyStr("roe")}, years : Years]
      [] cls = "ListFilingsTool" ->
           [company_code : {Omitted, PyStr("7203")}, doc_type : {Omitted, PyStr("120")},
            limit : BigLimit]
      [] cls = "GetTranslationsTool" ->
           [doc_id : {PyStr("S100ABCD")}, section : {Omitted, PyStr("mda")}]
      [] cls = "SearchTranslationsTool" ->
           [query : {PyStr("Toyota")}, section : {Omitted, PyStr("mda")}, limit : Limit]
      [] cls = "GetFilingCalendarTool" -> [month : {PyStr("2025-06")}]
      [] cls = "SearchCompaniesBatchTool" -> [queries : CodeLists]
      [] cls = "GetCoverageTool" -> {<<>>}

Omits(a) == Cardinality({f \in DOMAIN a : a[f] = Omitted})
\* the argument records that leave out every optional argument
MinArgs(cls) == {a \in ToolArgs(cls) : \A b \in ToolArgs(cls) : Omits(b) <= Omits(a)}

Classes == {ALL_TOOLS[i] : i \in 1..Len(ALL_TOOLS)}

NoInput == [op |-> "", cls |-> "", targs |-> <<>>, call |-> NoCall, query |-> "",
            net |-> NoNet]
ToolInput(c, a, n) == [op |-> "tool", cls |-> c, targs |-> a, call |-> NoCall,
                       query |-> "", net |-> n]
RequestInput(m, pth, pa, n) ==
    [op |-> "request", cls |-> "", targs |-> <<>>,
     call |-> [method |-> m, path |-> pth, params |-> pa], query |-> "", net |-> n]
RetrieverInput(q, n) == [op |-> "retriever", cls |-> "", targs |-> <<>>, call |-> NoCall,
                         query |-> q, net |-> n]

Inputs ==
    UNION {{ToolInput(c, a, n) : a \in ToolArgs(c), n \in NetsSmall} : c \in Classes}
    \cup UNION {{ToolInput(c, a, n) : a \in MinArgs(c), n \in NetsAll} : c \in Classes}
    \cup {RequestInput(m, pth, pa, n) :
              m \in Methods, pth \in Paths, pa \in ParamArgs, n \in NetsSmall}
    \cup {RequestInput(m, pth, pa, n) :
              m \in Methods, pth \in Paths, pa \in ParamArgsSmall, n \in NetsAll}
    \cup {RetrieverInput(q, n) : q \in Queries, n \in NetsAll}

RetrieverConfigs ==
    {NewRetriever(Key, DEFAULT_BASE_URL, sec, k) :
         sec \in {PyNone, PyStr(""), PyStr("mda")}, k \in {10, 100}}

BaseUrls == {DEFAULT_BASE_URL, DEFAULT_BASE_URL \o "/"}

(***************************************************************************)
(* Operations on the current state.                                        *)
(***************************************************************************)
\* the state after a call with effect e; o is the record of the call
Commit(e, o) ==
    /\ adapters' = e.h.adapters
    /\ clients' = e.h.clients
    /\ wire' = e.wire
    /\ sent' = sent + e.sends
    /\ last' = [o EXCEPT !.res = e.res]
    /\ UNCHANGED <<env, toolkits, threads>>

\* the same for a retriever call, which may have built the retriever's adapter
CommitRetriever(e, o) ==
    /\ Commit(e, o)
    /\ retriever' = e.R

DoRequest(a, call, net) ==
    /\ Commit(request(Heap, a, call.method, call.path, call.params, net),
              Outcome("request", "sync", "", <<>>, call, net, NoOutcome.res))
    /\ UNCHANGED <<tools, retriever, inp>>

DoARequest(a, call, net) ==
    /\ Commit(arequest(Heap, a, call.method, call.path, call.params, net),
              Outcome("request", "async", "", <<>>, call, net, NoOutcome.res))
    /\ UNCHANGED <<tools, retriever, inp>>

(***************************************************************************)
(* Spec: one adapter; any sequence of client accesses and of at most       *)
(* MaxCalls request/arequest calls, each with its own arguments and reply. *)
(***************************************************************************)
InitObjects(url) ==
    /\ adapters = <<NewAdapter(Key, url)>>
    /\ clients = <<>>
    /\ tools = [i \in 1..Len(ALL_TOOLS) |-> [cls |-> ALL_TOOLS[i], api |-> 1]]
    /\ wire = NoWire
    /\ sent = 0
    /\ last = NoOutcome
    /\ prev = NoOutcome
    /\ env = NoEnv
    /\ toolkits = <<>>

Init ==
    /\ InitObjects(DEFAULT_BASE_URL)
    /\ retriever = NewRetriever(Key, DEFAULT_BASE_URL, PyNone, 10)
    /\ inp = NoInput
    /\ threads = <<>>

Request ==
    /\ sent < MaxCalls
    /\ \E a \in 1..Len(adapters), m \in Methods, pth \in Paths,
          pa \in ParamArgsSmall, net \in NetsSmall :
          DoRequest(a, [method |-> m, path |-> pth, params |-> pa], net)
    /\ prev' = last

ARequest ==
    /\ sent < MaxCalls
    /\ \E a \in 1..Len(adapters), m \in Methods, pth \in Paths,
          pa \in ParamArgsSmall, net \in NetsSmall :
          DoARequest(a, [method |-> m, path |-> pth, params |-> pa], net)
    /\ prev' = last

\* an access to adapter.sync_client
SyncClient ==
    \E a \in 1..Len(adapters) :
        /\ adapters' = sync_client(Heap, a).h.adapters
        /\ clients' = sync_client(Heap, a).h.clients
        /\ last' = Outcome("client", "sync", "", <<>>, NoCall, NoNet,
                           Returned(PyInt(sync_client(Heap, a).id)))
        /\ UNCHANGED <<tools, retriever, wire, sent, inp, prev, env, toolkits, threads>>

\* an access to adapter.async_client
AsyncClient ==
    \E a \in 1..Len(adapters) :
        /\ adapters' = async_client(Heap, a).h.adapters
        /\ clients' = async_client(Heap, a).h.clients
        /\ last' = Outcome("client", "async", "", <<>>, NoCall, NoNet,
                           Returned(PyInt(async_client(Heap, a).id)))
        /\ UNCHANGED <<tools, retriever, wire, sent, inp, prev, env, toolkits, threads>>

Next ==
    \/ Request
    \/ ARequest
    \/ SyncClient
    \/ AsyncClient

Spec == Init /\ [][Next]_vars

(***************************************************************************)
(* SpecPaths: the arguments and the server's reply are fixed at the start; *)
(* the blocking and the non-blocking path are each taken once on them.     *)
(***************************************************************************)
NotYet(mode) == last.mode # mode /\ prev.mode # mode

InitPaths ==
    /\ \E url \in BaseUrls : InitObjects(url)
    /\ inp \in Inputs
    /\ threads = <<>>
    /\ IF inp.op = "retriever" THEN retriever \in RetrieverConfigs
       ELSE retriever = NewRetriever(Key, DEFAULT_BASE_URL, PyNone, 10)

PathRequest ==
    /\ inp.op = "request" /\ NotYet("sync")
    /\ DoRequest(1, inp.call, inp.net)
    /\ prev' = last

PathARequest ==
    /\ inp.op = "request" /\ NotYet("async")
    /\ DoARequest(1, inp.call, inp.net)
    /\ prev' = last

ClassIndex(cls) == CHOOSE i \in 1..Len(ALL_TOOLS) : ALL_TOOLS[i] = cls

PathToolRun ==
    /\ inp.op = "tool" /\ NotYet("sync")
    /\ Commit(_run(Heap, tools[ClassIndex(inp.cls)], inp.targs, inp.net),
              Outcome("tool", "sync", inp.cls, inp.targs, RunCall(inp.cls, inp.targs),
                      inp.net, NoOutcome.res))
    /\ prev' = last
    /\ UNCHANGED <<tools, retriever, inp>>

PathToolArun ==
    /\ inp.op = "tool" /\ NotYet("async")
    /\ Commit(_arun(Heap, tools[ClassIndex(inp.cls)], inp.targs, inp.net),
              Outcome("tool", "async", inp.cls, inp.targs, ArunCall(inp.cls, inp.targs),
                      inp.net, NoOutcome.res))
    /\ prev' = last
    /\ UNCHANGED <<tools, retriever, inp>>

PathRetrieve ==
    /\ inp.op = "retriever" /\ NotYet("sync")
    /\ CommitRetriever(_get_relevant_documents(Heap, retriever, inp.query, inp.net),
                       Outcome("retriever", "sync", "", <<>>,
                               Get("/translations/search",
                                   RetrieverParams(retriever, inp.query)),
                               inp.net, NoOutcome.res))
    /\ prev' = last
    /\ UNCHANGED <<tools, inp>>

PathARetrieve ==
    /\ inp.op = "retriever" /\ NotYet("async")
    /\ CommitRetriever(_aget_relevant_documents(Heap, retriever, inp.query, inp.net),
                       Outcome("retriever", "async", "", <<>>,
                               Get("/translations/search",
                                   ARetrieverParams(retriever, inp.query)),
                               inp.net, NoOutcome.res))
    /\ prev' = last
    /\ UNCHANGED <<tools, inp>>

NextPaths ==
    \/ PathRequest
    \/ PathARequest
    \/ PathToolRun
    \/ PathToolArun
    \/ PathRetrieve
    \/ PathARetrieve

SpecPaths == InitPaths /\ [][NextPaths]_vars

(***************************************************************************)
(* SpecBuild: objects are constructed under a fixed environment and used   *)
(* for at most MaxRuns calls.  No constructor is called once MaxObjects    *)
(* objects exist.                                                          *)
(***************************************************************************)
MaxObjects == 2
MaxRuns == 2

\* the credential and base URL given to a constructor
CredArgs ==
    {[api_key |-> Omitted, base_url |-> Omitted],
     [api_key |-> PyStr("ax_direct_key"), base_url |-> PyStr("https://example.test/v1/")],
     [api_key |-> PyStr(""), base_url |-> Omitted]}
EnvValues == {NoEnv, EnvVar("ax_env_key")}
SelectedArgs ==
    {PyNone, PyList(<<>>),
     PyList(<<PyStr("axiora_search_companies"), PyStr("axiora_get_financials")>>),
     PyList(<<PyStr("axiora_get_coverage"), PyStr("axiora_get_company"),
              PyStr("axiora_get_coverage")>>),
     PyList(<<PyStr("axiora_search_companies"), PyStr("nonexistent_tool")>>),
     PyList(<<PyStr("zzz"), PyStr("Search"), PyStr("axiora_get_company"), PyStr("zzz")>>)}
BuildClasses == {"GetFinancialsTool"}
RunClasses == {"GetFinancialsTool", "SearchCompaniesTool"}

\* the objects constructed so far
Objects ==
    Len(adapters) + Len(tools) + Len(toolkits) + (IF retriever = NoRetriever THEN 0 ELSE 1)

InitBuild ==
    /\ adapters = <<>>
    /\ clients = <<>>
    /\ tools = <<>>
    /\ toolkits = <<>>
    /\ retriever = NoRetriever
    /\ wire = NoWire
    /\ sent = 0
    /\ last = NoOutcome
    /\ prev = NoOutcome
    /\ inp = NoInput
    /\ env \in EnvValues
    /\ threads = <<>>

\* the state after a constructor with effect b; o is the record of the call
CommitBuilt(b, o) ==
    /\ adapters' = b.h.adapters
    /\ clients' = b.h.clients
    /\ last' = [o EXCEPT !.res = b.res]
    /\ UNCHANGED <<wire, sent, prev, inp, env, threads>>

\* AxioraAPIWrapper(...)
BuildAdapter ==
    /\ Objects < MaxObjects
    /\ \E c \in CredArgs :
          CommitBuilt(AxioraAPIWrapper(Heap, c.api_key, c.base_url, env),
                      Outcome("new_adapter", "", "", c, NoCall, NoNet, NoOutcome.res))
    /\ UNCHANGED <<tools, toolkits, retriever>>

\* the constructor arguments of a facade: an adapter, or a credential, or nothing
FacadeArgs ==
    {[api |-> a, api_key |-> Omitted, base_url |-> Omitted] : a \in 1..Len(adapters)}
    \cup {[api |-> 0, api_key |-> c.api_key, base_url |-> c.base_url] : c \in CredArgs}
    \cup {[api |-> 0, api_key |-> PyNone, base_url |-> PyNone]}

\* tool_cls(...): the facade is the last of tools, the result its adapter
BuildTool ==
    /\ Objects < MaxObjects
    /\ \E cls \in BuildClasses, values \in FacadeArgs :
          /\ CommitBuilt(_build_api_wrapper(Heap, values, env),
                         Outcome("new_tool", "", cls, values, NoCall, NoNet, NoOutcome.res))
          /\ tools' = IF _build_api_wrapper(Heap, values, env).res.kind = "return"
                      THEN Append(tools, [cls |-> cls,
                                          api |-> _build_api_wrapper(Heap, values, env).id])
                      ELSE tools
    /\ UNCHANGED <<toolkits, retriever>>

\* AxioraToolkit(...)
BuildToolkit ==
    /\ Objects < MaxObjects
    /\ \E c \in CredArgs, selected \in SelectedArgs :
          /\ toolkits' =
                IF AxioraToolkit(c.api_key, c.base_url, selected, env).res.kind = "return"
                THEN Append(toolkits, AxioraToolkit(c.api_key, c.base_url, selected, env).obj)
                ELSE toolkits
          /\ last' = Outcome("new_toolkit", "", "",
                             [api_key |-> c.api_key, base_url |-> c.base_url,
                              selected_tools |-> selected],
                             NoCall, NoNet,
                             AxioraToolkit(c.api_key, c.base_url, selected, env).res)
    /\ UNCHANGED <<adapters, clients, tools, retriever, wire, sent, prev, inp, env, threads>>

\* toolkit.get_tools(): the result lists the returned facades as positions in tools
\* (the first call on a toolkit that exists alone may be repeated at once)
GetTools ==
    /\ \/ Objects < MaxObjects
       \/ last.op = "get_tools" /\ Objects = Len(ALL_TOOLS) + 2
    /\ \E t \in 1..Len(toolkits) :
          /\ adapters' = get_tools(Heap, toolkits[t], env).h.adapters
          /\ clients' = get_tools(Heap, toolkits[t], env).h.clients
          /\ tools' = tools \o get_tools(Heap, toolkits[t], env).all
          /\ last' = Outcome("get_tools", "", "", toolkits[t], NoCall, NoNet,
                             Returned(PyList([i \in 1..Len(get_tools(Heap, toolkits[t], env).picked) |->
                                 PyInt(Len(tools) + get_tools(Heap, toolkits[t], env).picked[i])])))
    /\ UNCHANGED <<toolkits, retriever, wire, sent, prev, inp, env, threads>>

\* AxioraRetriever(...)
BuildRetriever ==
    /\ Objects < MaxObjects
    /\ retriever = NoRetriever
    /\ \E c \in CredArgs :
          /\ retriever' =
                IF AxioraRetriever(c.api_key, c.base_url, PyNone, 10, env).res.kind = "return"
                THEN AxioraRetriever(c.api_key, c.base_url, PyNone, 10, env).obj
                ELSE retriever
          /\ last' = Outcome("new_retriever", "", "", c, NoCall, NoNet,
                             AxioraRetriever(c.api_key, c.base_url, PyNone, 10, env).res)
    /\ UNCHANGED <<adapters, clients, tools, toolkits, wire, sent, prev, inp, env, threads>>

\* a facade is invoked, on either path
RunFacade ==
    /\ sent < MaxRuns
    /\ \E t \in {u \in 1..Len(tools) : tools[u].cls \in RunClasses}, mode \in {"sync", "async"} :
       \E a \in MinArgs(tools[t].cls) :
          Commit(IF mode = "sync" THEN _run(Heap, tools[t], a, Response(200, ToyotaText))
                 ELSE _arun(Heap, tools[t], a, Response(200, ToyotaText)),
                 Outcome("tool", mode, tools[t].cls, a,
                         IF mode = "sync" THEN RunCall(tools[t].cls, a)
                         ELSE ArunCall(tools[t].cls, a),
                         Response(200, ToyotaText), NoOutcome.res))
    /\ prev' = last
    /\ UNCHANGED <<tools, retriever, inp>>

\* the retriever is invoked
Retrieve ==
    /\ sent < MaxRuns
    /\ retriever # NoRetriever
    /\ CommitRetriever(_get_relevant_documents(Heap, retriever, "Toyota",
                                               Response(200, DocsText)),
                       Outcome("retriever", "sync", "", <<>>,
                               Get("/translations/search",
                                   RetrieverParams(retriever, "Toyota")),
                               Response(200, DocsText), NoOutcome.res))
    /\ prev' = last
    /\ UNCHANGED <<tools, inp>>

NextBuild ==
    \/ BuildAdapter
    \/ BuildTool
    \/ BuildToolkit
    \/ GetTools
    \/ BuildRetriever
    \/ RunFacade
    \/ Retrieve

SpecBuild == InitBuild /\ [][NextBuild]_vars

(***************************************************************************)
(* SpecThreads: NThreads threads read the property sync_client or          *)
(* async_client of one adapter.  The property is not atomic: a thread      *)
(* tests the private field, constructs the client, stores it and reads     *)
(* the field again to return it, and the threads interleave between        *)
(* these steps.                                                            *)
(***************************************************************************)
NThreads == 2

\* self._sync_client / self._async_client of adapter a (0: None)
ClientField(a, mode) == IF mode = "sync" THEN adapters[a].sync ELSE adapters[a].async

InitThreads ==
    /\ \E url \in BaseUrls : InitObjects(url)
    /\ retriever = NewRetriever(Key, DEFAULT_BASE_URL, PyNone, 10)
    /\ inp = NoInput
    /\ threads \in [1..NThreads ->
                      {[pc |-> "test", mode |-> m, made |-> 0, got |-> 0] :
                          m \in {"sync", "async"}}]

\* the state after a step of thread t
ThreadStep(t, pc, made, got) ==
    /\ threads' = [threads EXCEPT ![t].pc = pc, ![t].made = made, ![t].got = got]
    /\ UNCHANGED <<tools, retriever, wire, sent, last, prev, inp, env, toolkits>>

\* if self._sync_client is None:
ThreadTest ==
    \E t \in 1..Len(threads) :
       /\ threads[t].pc = "test"
       /\ ThreadStep(t, IF ClientField(1, threads[t].mode) = 0 THEN "create" ELSE "return",
                     0, 0)
       /\ UNCHANGED <<adapters, clients>>

\* httpx.Client(headers=self._headers(), timeout=self.timeout)
ThreadCreate ==
    \E t \in 1..Len(threads) :
       /\ threads[t].pc = "create"
       /\ clients' = Append(clients, NewClient(Heap, 1, threads[t].mode))
       /\ ThreadStep(t, "assign", Len(clients) + 1, 0)
       /\ UNCHANGED adapters

\* self._sync_client = <the client constructed>
ThreadAssign ==
    \E t \in 1..Len(threads) :
       /\ threads[t].pc = "assign"
       /\ adapters' = IF threads[t].mode = "sync"
                      THEN [adapters EXCEPT ![1].sync = threads[t].made]
                      ELSE [adapters EXCEPT ![1].async = threads[t].made]
       /\ ThreadStep(t, "return", threads[t].made, 0)
       /\ UNCHANGED clients

\* return self._sync_client
ThreadReturn ==
    \E t \in 1..Len(threads) :
       /\ threads[t].pc = "return"
       /\ ThreadStep(t, "done", threads[t].made, ClientField(1, threads[t].mode))
       /\ UNCHANGED <<adapters, clients>>

NextThreads ==
    \/ ThreadTest
    \/ ThreadCreate
    \/ ThreadAssign
    \/ ThreadReturn

SpecThreads == InitThreads /\ [][NextThreads]_vars

(***************************************************************************)
(* Properties                                                              *)
(***************************************************************************)
Invoked == last.op \in {"request", "tool", "retriever"}
GivenParams == IF last.call.params.some THEN last.call.params.map ELSE EmptyMap
GotResponse == last.net.kind = "response"
Status == last.net.status
Falsy == {PyInt(0), PyStr(""), PyBool(FALSE)}

\* C1: the query parameters handed to the HTTP client are exactly the
\* entries of the mapping given to request/arequest whose value is not None
\* (None as mapping counts as empty); falsy values 0, "" and False pass
\* unchanged, and cleaning the transmitted mapping again changes nothing.
C1_OnlyNullsDropped ==
    Invoked =>
        /\ DOMAIN wire.params = {k \in DOMAIN GivenParams : GivenParams[k] # PyNone}
        /\ \A k \in DOMAIN wire.params : wire.params[k] = GivenParams[k]
        /\ _clean(wire.params) = wire.params

C1_Witness ==
    /\ last.op = "request"
    /\ \E k \in DOMAIN GivenParams : GivenParams[k] = PyNone
    /\ \E k \in DOMAIN wire.params : wire.params[k] \in Falsy

\* C2 as stated: a 2xx status always makes request/arequest return the
\* parsed body, any other status raises HTTPStatusError carrying the response.
C2_Original ==
    (last.op = "request" /\ GotResponse) =>
        IF Status \in 200..299
        THEN last.res.kind = "return" /\ Loads(last.net.text).ok
             /\ last.res.value = Loads(last.net.text).v
        ELSE last.res.kind = "HTTPStatusError" /\ last.res.resp = last.net

\* C2 (amended): with a 2xx status request/arequest return the parsed body
\* verbatim when the body is valid JSON and raise the decoder's error (no
\* value, not an HTTPStatusError) when it is not; with any other status
\* they raise HTTPStatusError carrying the response, 4xx and 5xx alike, and
\* never return a value.
C2_StatusDecides ==
    (last.op = "request" /\ GotResponse) =>
        IF Status \in 200..299
        THEN IF Loads(last.net.text).ok
             THEN last.res.kind = "return" /\ last.res.value = Loads(last.net.text).v
             ELSE last.res.kind = "JSONDecodeError"
        ELSE last.res.kind = "HTTPStatusError" /\ last.res.resp = last.net

C2_Witness ==
    /\ last.op = "request"
    /\ Status = 204 /\ last.net.text = ""
    /\ last.res.kind = "JSONDecodeError"
    /\ prev.net.status = 204

HttpFailure(net) == net.kind = "response" /\ net.status \notin 200..299
Failure(net) == net.kind = "transport" \/ HttpFailure(net)

\* C3 as stated: every invocation issues exactly one HTTP request and a
\* failed call is reported to the caller by that invocation.
C3_Original ==
    [][(last' # last) =>
          /\ sent' = sent + 1
          /\ Failure(last'.net) => last'.res.kind # "return"]_vars

\* C3 (amended): every invocation of a tool facade, of the retriever or of
\* request/arequest issues exactly one HTTP request, with no retry at any
\* layer, and delivers the outcome of a failed call itself: the adapter and
\* the tool facades raise, the retriever raises too except for an HTTP-status
\* failure, for which it returns the empty list.
C3_OneRequestPerInvocation ==
    [][(last' # last) =>
          /\ sent' = sent + 1
          /\ Failure(last'.net) =>
                IF last'.op = "retriever" /\ HttpFailure(last'.net)
                THEN last'.res = Returned(PyList(<<>>))
                ELSE last'.res.kind # "return"]_vars

C3_Witness ==
    /\ sent = 2
    /\ prev.op = "tool" /\ prev.mode = "sync" /\ prev.res.kind = "ToolException"
    /\ last.mode = "async" /\ last.res.kind = "ToolException"

ClientsOf(cs, a, mode) == {c \in 1..Len(cs) : cs[c].owner = a /\ cs[c].mode = mode}

\* C4: for each adapter and mode at most one client object is ever created;
\* it is created by the first access, every later access and request gets
\* that very object, and it is never closed or replaced.
C4_OneClientPerMode ==
    [][\A a \in 1..Len(adapters) :
          /\ Cardinality(ClientsOf(clients', a, "sync")) <= 1
          /\ Cardinality(ClientsOf(clients', a, "async")) <= 1
          /\ adapters[a].sync # 0 => adapters'[a].sync = adapters[a].sync
          /\ adapters[a].async # 0 => adapters'[a].async = adapters[a].async
          /\ \A c \in 1..Len(clients) : clients'[c] = clients[c] /\ ~clients'[c].closed
          /\ (last'.op = "client" /\ last'.mode = "sync") =>
                adapters'[a].sync # 0 /\ last'.res.value = PyInt(adapters'[a].sync)
          /\ (last'.op = "client" /\ last'.mode = "async") =>
                adapters'[a].async # 0 /\ last'.res.value = PyInt(adapters'[a].async)
          /\ (sent' # sent /\ last'.mode = "sync") =>
                adapters'[a].sync # 0 /\ wire'.client = adapters'[a].sync
          /\ (sent' # sent /\ last'.mode = "async") =>
                adapters'[a].async # 0 /\ wire'.client = adapters'[a].async]_vars

C4_Witness ==
    /\ sent = 3
    /\ last.op = "request" /\ last.mode = "sync"
    /\ Len(clients) = 1
    /\ wire.client = adapters[1].sync

ToolFailed == last.op = "tool" /\ HttpFailure(last.net)
ToolError == last.op = "tool" /\ last.res.kind = "ToolException"

\* the text of a value, "" for None
TextOf(v) == IF v.t = "str" THEN v.s ELSE ""

\* the detail the server supplied in an error reply: `detail` of a JSON
\* object, else its `error`; the head of the raw text for any other body
SuppliedDetail(net) ==
    LET body == Loads(net.text) IN
    IF body.ok /\ body.v.t = "dict"
    THEN (IF HasKey(body.v, "detail") THEN body.v.kids[KeyIndex(body.v, "detail")]
          ELSE IF HasKey(body.v, "error") THEN body.v.kids[KeyIndex(body.v, "error")]
          ELSE PyStr(""))
    ELSE PyStr(IF Len(net.text) > 200 THEN SubSeq(net.text, 1, 200) ELSE net.text)

\* C5: when the adapter call of any facade fails with an HTTPStatusError, on
\* the blocking and on the non-blocking path alike, the invocation raises a
\* ToolException whose message contains the status code and the detail text
\* the server supplied; the translator never returns.
C5_HttpErrorBecomesToolException ==
    ToolFailed =>
        /\ last.res.kind = "ToolException"
        /\ last.res.resp = last.net
        /\ Contains(last.res.msg, ToString(Status))
        /\ Contains(last.res.msg, TextOf(SuppliedDetail(last.net)))

C5_Witness ==
    /\ last.op = "tool" /\ last.cls = "GetCompanyTool" /\ last.mode = "async"
    /\ last.net = Response(404, NotFoundText)
    /\ last.res.kind = "ToolException"
    /\ Contains(last.res.msg, "404") /\ Contains(last.res.msg, "Company not found")

NonEmptyDetail(d) == d # PyNone /\ d # PyStr("")

\* C6: the message is "Axiora API error <status>", then the detail if it is
\* non-empty, then the hint if there is one, joined by ". "; an empty detail
\* or a missing hint leaves neither a segment nor a separator.
C6_MessageSegments ==
    ToolError =>
        last.res.msg =
            "Axiora API error " \o ToString(Status)
            \o (IF NonEmptyDetail(last.res.detail) THEN ". " \o TextOf(last.res.detail) ELSE "")
            \o (IF last.res.hint # "" THEN ". " \o last.res.hint ELSE "")

C6_Witness ==
    /\ ToolError
    /\ last.net = Response(404, "{}")
    /\ last.res.msg
         = "Axiora API error 404. Not found. Use axiora_search_companies to find the correct code."

HintStatuses == {401, 403, 404, 429}

\* the message without its hint segment
MessageWithoutHint ==
    "Axiora API error " \o ToString(Status)
    \o (IF NonEmptyDetail(last.res.detail) THEN ". " \o TextOf(last.res.detail) ELSE "")

\* C7: the hint is looked up by the exact status code in a table of four
\* entries: 401 names AXIORA_API_KEY, 403 speaks of the plan, 404 points to
\* axiora_search_companies, 429 of the rate limit; any other code gives no
\* hint segment.
C7_HintByExactStatus ==
    /\ DOMAIN _HTTP_ERROR_HINTS = HintStatuses
    /\ ToolError =>
          /\ Status = 401 => Contains(last.res.hint, "AXIORA_API_KEY")
          /\ Status = 403 => Contains(last.res.hint, "plan")
          /\ Status = 404 => /\ Contains(last.res.hint, "Not found")
                             /\ Contains(last.res.hint, "axiora_search_companies")
          /\ Status = 429 => Contains(last.res.hint, "Rate limit")
          /\ Status \in HintStatuses =>
                last.res.msg = MessageWithoutHint \o ". " \o last.res.hint
          /\ Status \notin HintStatuses =>
                last.res.hint = "" /\ last.res.msg = MessageWithoutHint

C7_Witness ==
    /\ ToolError /\ Status = 401
    /\ Contains(last.res.msg, "AXIORA_API_KEY")
    /\ prev.res.kind = "ToolException"

\* C8: the detail is the `detail` field of the JSON body, or its `error`
\* field when there is no `detail`; when the body is not a JSON object
\* (not JSON, or another JSON value) it is the first 200 characters of the
\* raw text, never more.
C8_DetailExtraction ==
    ToolError =>
        /\ last.res.detail = SuppliedDetail(last.net)
        /\ LET body == Loads(last.net.text) IN
           (~body.ok \/ body.v.t # "dict") =>
               /\ Len(last.res.detail.s) <= 200
               /\ StartsWith(last.net.text, last.res.detail.s)
               /\ (Len(last.net.text) >= 200 => Len(last.res.detail.s) = 200)

C8_Witness ==
    /\ ToolError
    /\ last.net.text = Long203
    /\ last.res.detail = PyStr(X200)

ToolSucceeded == last.op = "tool" /\ last.res.kind = "return"
Payload == Loads(last.net.text).v
Output == last.res.value.s

\* the string values that occur in a JSON value
RECURSIVE StringValues(_)
StringValues(v) ==
    IF v.t = "str" THEN {v.s}
    ELSE UNION {StringValues(v.kids[i]) : i \in 1..Len(v.kids)}

\* characters that JSON writes with a backslash
NeedsEscape(x) ==
    \E i \in 1..Len(x) : Ch(x, i) \in {"\"", "\\", "\n", "\r", "\t", "\f"}

\* x as JSON writes it inside quotes, non-ASCII characters left as they are
RECURSIVE Escaped(_)
Escaped(x) ==
    IF x = "" THEN ""
    ELSE (CASE Head(x) = "\"" -> "\\\""
            [] Head(x) = "\\" -> "\\\\"
            [] Head(x) = "\n" -> "\\n"
            [] Head(x) = "\r" -> "\\r"
            [] Head(x) = "\t" -> "\\t"
            [] Head(x) = "\f" -> "\\f"
            [] OTHER -> Head(x)) \o Escaped(Tail(x))

RoundTrip ==
    /\ last.res.value.t = "str"
    /\ Loads(Output).ok
    /\ Loads(Output).v = Payload

BothPathsTaken == prev.mode # "" /\ last.mode # prev.mode

\* C10: for every facade and for the retriever, the blocking and the
\* non-blocking path given the same arguments send the same method, path and
\* parameter mapping to the adapter, and given the same reply produce the
\* same result or the same error.
C10_PathsAgree ==
    BothPathsTaken =>
        /\ last.op = prev.op /\ last.targs = prev.targs /\ last.net = prev.net
        /\ last.call = prev.call
        /\ last.res = prev.res

C10_Witness ==
    /\ BothPathsTaken
    /\ prev.op = "retriever" /\ prev.mode = "async" /\ last.mode = "sync"
    /\ last.net.text = DocsText /\ last.net.status = 200
    /\ last.res.kind = "return" /\ Len(last.res.value.kids) = 3
    /\ "section" \in DOMAIN last.call.params.map

\* the step constructs a facade
FacadeBuilt == last'.op = "new_tool" /\ Len(tools') = Len(tools) + 1
\* the credential a constructor was given (None counts as not given)
GivenKey(v) == IF v.api_key \in {Omitted, PyNone} THEN env.value ELSE v.api_key.s
GivenUrl(v) == IF v.base_url \in {Omitted, PyNone} THEN DEFAULT_BASE_URL ELSE v.base_url.s

\* C11: every facade is bound to exactly one adapter.  A facade built on a
\* supplied adapter holds that very adapter and no adapter is created; built
\* without one it holds a new adapter made from the given credential and
\* base URL, the environment's credential and the default URL standing in
\* for what is not given.  A call through a facade uses the connection
\* object of the facade's adapter, and creates none when the adapter has one.
C11_FacadeHoldsItsAdapter ==
    [][/\ \A t \in 1..Len(tools') : tools'[t].api \in 1..Len(adapters')
       /\ (FacadeBuilt /\ last'.targs.api # 0) =>
             /\ tools'[Len(tools')].api = last'.targs.api
             /\ adapters' = adapters
       /\ (FacadeBuilt /\ last'.targs.api = 0) =>
             /\ tools'[Len(tools')].api = Len(adapters) + 1
             /\ Len(adapters') = Len(adapters) + 1
             /\ adapters'[Len(adapters')] =
                   NewAdapter(GivenKey(last'.targs), GivenUrl(last'.targs))
       /\ (last'.op = "tool" /\ sent' = sent + 1) =>
             \E t \in 1..Len(tools) :
                /\ tools[t].cls = last'.cls
                /\ clients'[wire'.client].owner = tools[t].api
                /\ wire'.client \in {adapters'[tools[t].api].sync,
                                     adapters'[tools[t].api].async}
                /\ wire'.client <= Len(clients) => clients' = clients
      ]_vars

\* a facade has just been built on the adapter constructed before it
C11_Witness ==
    /\ last.op = "new_tool" /\ last.res.kind = "return" /\ last.targs.api = 1
    /\ Len(adapters) = 1 /\ Len(tools) = 1 /\ tools[1].api = 1

\* the last operation constructed an object
Constructed(op) == last.op = op /\ last.res.kind = "return"
\* the credential held by the object the last constructor built
HeldKey ==
    CASE last.op = "new_adapter" -> adapters[Len(adapters)].api_key
      [] last.op = "new_tool" -> adapters[tools[Len(tools)].api].api_key
      [] last.op = "new_toolkit" -> toolkits[Len(toolkits)].api_key
      [] last.op = "new_retriever" -> retriever.api_key
      [] OTHER -> ""
KeyGiven == last.targs.api_key \notin {Omitted, PyNone}
FromCredential ==
    \/ last.op \in {"new_adapter", "new_toolkit", "new_retriever"}
    \/ last.op = "new_tool" /\ last.targs.api = 0

\* C12: an object constructed with an explicit credential holds that
\* credential whatever AXIORA_API_KEY is, and one constructed without holds
\* the variable's value; the adapter made by get_tools or by the retriever
\* holds its owner's credential, and every connection object sends the
\* credential of its adapter as the bearer token.
C12_ExplicitCredentialWins ==
    /\ (FromCredential /\ last.res.kind = "return") =>
          HeldKey = IF KeyGiven THEN last.targs.api_key.s ELSE env.value
    /\ Constructed("get_tools") => adapters[Len(adapters)].api_key = last.targs.api_key
    /\ retriever.api # 0 => adapters[retriever.api].api_key = retriever.api_key
    /\ \A c \in 1..Len(clients) :
          clients[c].headers.Authorization
             = "Bearer " \o adapters[clients[c].owner].api_key

\* with the variable set, a facade built with another credential has sent it
C12_Witness ==
    /\ env = EnvVar("ax_env_key")
    /\ last.op = "tool" /\ wire.client # 0
    /\ clients[wire.client].headers.Authorization = "Bearer ax_direct_key"

\* the step is a constructor called with no credential (and no adapter)
\* while AXIORA_API_KEY is not set
BuiltWithoutCredential ==
    /\ last'.op \in {"new_adapter", "new_tool", "new_toolkit", "new_retriever"}
    /\ last'.op = "new_tool" => last'.targs.api = 0
    /\ last'.targs.api_key \in {Omitted, PyNone}
    /\ ~env.set

\* C13: constructing an adapter, a facade (given no adapter), a toolkit or
\* the retriever without a credential while AXIORA_API_KEY is not set raises
\* an error whose message names AXIORA_API_KEY; the step creates no adapter,
\* client, facade, toolkit or retriever and sends no HTTP request.
C13_MissingCredentialFails ==
    [][BuiltWithoutCredential =>
          /\ last'.res.kind = "ValueError"
          /\ Contains(last'.res.msg, "AXIORA_API_KEY")
          /\ UNCHANGED <<adapters, clients, tools, toolkits, retriever, wire, sent>>
      ]_vars

\* a facade given api_key=None failed after an adapter had been built with
\* an explicit credential
C13_Witness ==
    /\ ~env.set /\ Len(adapters) = 1 /\ tools = <<>>
    /\ last.op = "new_tool" /\ last.targs.api = 0 /\ last.targs.api_key = PyNone
    /\ last.res.kind = "ValueError" /\ last.res.msg = KeyErrorMessage

Forms == {"repr", "str", "dump", "json"}
\* credentials an object could have been built with instead of its own
CredentialValues == {"ax_direct_key", "ax_env_key", "ax_live_supersecretkey123", ""}
\* the heap in which adapter a was built with credential k
WithKey(a, k) == [Heap EXCEPT !.adapters[a].api_key = k]

\* every representation of every object is the same had the object been
\* built with credential k, for the credentials K(own credential)
SameShown(K(_)) ==
    \A form \in Forms :
       /\ \A a \in 1..Len(adapters) : \A k \in K(adapters[a].api_key) :
             ShowAdapter(WithKey(a, k).adapters[a], form) = ShowAdapter(adapters[a], form)
       /\ \A t \in 1..Len(tools) : \A k \in K(adapters[tools[t].api].api_key) :
             ShowTool(WithKey(tools[t].api, k), tools[t], form) = ShowTool(Heap, tools[t], form)
       /\ \A t \in 1..Len(toolkits) : \A k \in K(toolkits[t].api_key) :
             ShowToolkit([toolkits[t] EXCEPT !.api_key = k], form)
                = ShowToolkit(toolkits[t], form)

AnyCredential(own) == CredentialValues
AsEmpty(own) == {k \in CredentialValues : (k = "") <=> (own = "")}

\* C14 as stated: the representations of an adapter, a facade or a toolkit
\* are the same whatever credential the object was built with.
C14_Original == SameShown(AnyCredential)

\* no representation of an object contains the object's non-empty
\* credential, and each is the same for credentials alike in being empty
Masked ==
    /\ SameShown(AsEmpty)
    /\ \A form \in Forms :
          /\ \A a \in 1..Len(adapters) :
                adapters[a].api_key # "" =>
                   ~Contains(ShowAdapter(adapters[a], form), adapters[a].api_key)
          /\ \A t \in 1..Len(tools) :
                adapters[tools[t].api].api_key # "" =>
                   ~Contains(ShowTool(Heap, tools[t], form), adapters[tools[t].api].api_key)
          /\ \A t \in 1..Len(toolkits) :
                toolkits[t].api_key # "" =>
                   ~Contains(ShowToolkit(toolkits[t], form), toolkits[t].api_key)
\* the last operation built an adapter, a facade or a toolkit
ObjectBuilt ==
    \/ last.op = "retriever"
    \/ /\ last.op \in {"new_adapter", "new_tool", "new_toolkit", "get_tools"}
       /\ last.res.kind = "return"

\* C14 (amended): once an object is built, no representation (repr, str,
\* dump, JSON dump) of an adapter, a facade or a toolkit contains the
\* object's non-empty credential, and the representations are the same for
\* any two credentials that are both non-empty or both empty: the
\* representation tells whether the credential is empty and nothing else
\* about it.  What is shown of an object does not change after it is built.
C14_CredentialMasked == ObjectBuilt => Masked

\* a toolkit built with a credential has returned its facades
C14_Witness ==
    /\ ObjectBuilt /\ last.op = "get_tools"
    /\ Len(toolkits) = 1 /\ toolkits[1].api_key = "ax_direct_key"
    /\ Len(tools) = 18 /\ adapters[tools[3].api].api_key = "ax_direct_key"
    /\ ShowAdapter(adapters[1], "repr")
          = "AxioraAPIWrapper(api_key=SecretStr('**********'), "
            \o "base_url='https://example.test/v1/', timeout=30.0)"
    /\ ShowTool(Heap, tools[3], "json")
          = "{\"name\": \"axiora_get_financials\", \"api\": {\"api_key\": \"**********\", "
            \o "\"base_url\": \"https://example.test/v1/\", \"timeout\": 30.0}}"

\* the step is a call of get_tools
GotTools == last'.op = "get_tools" /\ tools' # tools

\* C15: a call of get_tools creates exactly one adapter, holding the
\* toolkit's credential and base URL, and no connection object; every facade
\* it builds, and so every facade it returns, is bound to that adapter.  An
\* adapter never has two connection objects of one mode, so the calls made
\* through the returned facades on one path share one connection.
C15_OneSharedAdapter ==
    [][/\ GotTools =>
             /\ Len(adapters') = Len(adapters) + 1
             /\ SubSeq(adapters', 1, Len(adapters)) = adapters
             /\ adapters'[Len(adapters')]
                   = NewAdapter(last'.targs.api_key, last'.targs.base_url)
             /\ clients' = clients
             /\ Len(tools') = Len(tools) + Len(ALL_TOOLS)
             /\ \A t \in (Len(tools) + 1)..Len(tools') : tools'[t].api = Len(adapters')
             /\ \A i \in 1..Len(last'.res.value.kids) :
                   /\ last'.res.value.kids[i].n \in (Len(tools) + 1)..Len(tools')
                   /\ tools'[last'.res.value.kids[i].n].api = Len(adapters')
       /\ \A c, d \in 1..Len(clients') :
             (clients'[c].owner = clients'[d].owner /\ clients'[c].mode = clients'[d].mode)
                => c = d
      ]_vars

\* two different facades returned by one get_tools call have been called on
\* the same path, through one connection object
C15_Witness ==
    /\ Len(toolkits) = 1 /\ Len(adapters) = 1 /\ Len(tools) = Len(ALL_TOOLS)
    /\ sent = 2 /\ last.op = "tool" /\ prev.op = "tool"
    /\ last.cls # prev.cls /\ last.mode = prev.mode
    /\ Len(clients) = 1 /\ wire.client = 1

\* the facades returned by the last get_tools call, as positions in tools
ReturnedTools == [i \in 1..Len(last.res.value.kids) |-> last.res.value.kids[i].n]
ReturnedNames == {ToolName(tools[ReturnedTools[i]].cls) : i \in 1..Len(ReturnedTools)}

\* C16: get_tools of a toolkit without filter returns 18 facades, one for
\* each known tool name; get_tools of a toolkit with a filter returns one
\* facade for each name in the filter and no other facade.
C16_ReturnedFacades ==
    Constructed("get_tools") =>
        /\ Len(ReturnedTools) = Cardinality(ReturnedNames)
        /\ IF last.targs.selected_tools = PyNone
           THEN /\ Len(ReturnedTools) = 18
                /\ ReturnedNames = _VALID_TOOL_NAMES
           ELSE ReturnedNames = NameSet(last.targs.selected_tools)

\* a toolkit filtered to two names, one of them given twice, has returned
\* two facades
C16_Witness ==
    /\ Constructed("get_tools")
    /\ last.targs.selected_tools
          = PyList(<<PyStr("axiora_get_coverage"), PyStr("axiora_get_company"),
                     PyStr("axiora_get_coverage")>>)
    /\ ReturnedNames = {"axiora_get_coverage", "axiora_get_company"}
    /\ Len(ReturnedTools) = 2

\* the step constructs a toolkit, a credential being available
ToolkitCalled ==
    /\ last'.op = "new_toolkit"
    /\ last'.targs.api_key # Omitted \/ env.set
\* the names of a filter that are no tool names
InvalidNames(selected) ==
    IF selected = PyNone THEN {} ELSE NameSet(selected) \ _VALID_TOOL_NAMES

\* the listing of the valid names quotes every one of them
ListingQuotesValidNames ==
    \A n \in _VALID_TOOL_NAMES : Contains(ListRepr(SortedValidNames), "'" \o n \o "'")

HttpError == GotResponse /\ Status \notin 200..299

\* C18: when the server answers the retriever's request with a status
\* outside 200..299, the retriever returns the empty list and raises
\* nothing, on the blocking and on the non-blocking path; a tool facade
\* given such an answer raises a ToolException.
C18_RetrieverDegradesToEmpty ==
    /\ (last.op = "retriever" /\ HttpError) => last.res = Returned(PyList(<<>>))
    /\ (last.op = "tool" /\ HttpError) => last.res.kind = "ToolException"

\* both paths of the retriever returned the empty list for a 500 answer
C18_Witness ==
    /\ BothPathsTaken /\ last.op = "retriever" /\ prev.op = "retriever"
    /\ Status = 500 /\ prev.net = last.net
    /\ last.res = Returned(PyList(<<>>)) /\ prev.res = last.res
    /\ sent = 2

\* the retriever's request was answered with a 2xx status and a JSON body
RetrieverAnswered ==
    /\ last.op = "retriever" /\ GotResponse /\ Status \in 200..299
    /\ Loads(last.net.text).ok
\* the items of the body's `data` array; none when the body is no object or
\* has no `data` array
DataItems ==
    IF Payload.t = "dict" /\ DictGet(Payload, "data", PyNone).t = "list"
    THEN DictGet(Payload, "data", PyNone).kids
    ELSE <<>>
\* the text the claim gives an item
ClaimedText(item) ==
    IF item.t = "dict" /\ HasKey(item, "content") THEN DictGet(item, "content", PyNone)
    ELSE IF item.t = "dict" /\ HasKey(item, "snippet") THEN DictGet(item, "snippet", PyNone)
    ELSE PyStr("")

\* C19: on success the retriever returns one document per item of the
\* body's `data` array, in order, whose text is the item's `content`, or its
\* `snippet` when `content` is absent, or "" when both are; a body that is
\* no object or has no `data` array gives the empty list.
C19_OneDocumentPerItem ==
    RetrieverAnswered =>
        /\ last.res.kind = "return"
        /\ Len(last.res.value.kids) = Len(DataItems)
        /\ \A i \in 1..Len(DataItems) :
              DictGet(last.res.value.kids[i], "page_content", PyNone)
                 = ClaimedText(DataItems[i])

\* the retriever returned documents for a 2xx answer
Retrieved == RetrieverAnswered /\ last.res.kind = "return"
\* the attributes of the i-th document returned
Attributes(i) == DictGet(last.res.value.kids[i], "metadata", PyNone)
\* the field of an item that the claim takes as the text
UsedAsText(item) ==
    IF HasKey(item, "content") THEN {"content"}
    ELSE IF HasKey(item, "snippet") THEN {"snippet"}
    ELSE {}
\* the attributes of every document are the non-null fields of its item
\* whose key is not excluded by Excluded(item), with their values
AttributesAre(Excluded(_)) ==
    Retrieved =>
       \A i \in 1..Len(DataItems) :
          /\ \A j \in 1..Len(DataItems[i].keys) :
                (DataItems[i].keys[j] \notin Excluded(DataItems[i])
                 /\ DataItems[i].kids[j] # PyNone)
                   => /\ HasKey(Attributes(i), DataItems[i].keys[j])
                      /\ DictGet(Attributes(i), DataItems[i].keys[j], PyNone)
                            = DataItems[i].kids[j]
          /\ \A j \in 1..Len(Attributes(i).keys) :
                /\ Attributes(i).kids[j] # PyNone
                /\ Attributes(i).keys[j] \notin Excluded(DataItems[i]) \cup {"content"}
                /\ DictGet(DataItems[i], Attributes(i).keys[j], PyNone)
                      = Attributes(i).kids[j]
ContentAndSnippet(item) == {"content", "snippet"}

\* C20 as stated: the attributes are the non-null fields of the item other
\* than the one used as text, unchanged; no null field and no `content`.
C20_Original == AttributesAre(UsedAsText)

\* C20 (amended): the attributes of a document are the fields of its item
\* other than `content` and `snippet` whose value is not null, each with its
\* value unchanged (falsy values included); neither a null field nor
\* `content` nor `snippet` is an attribute, whichever field gave the text.
C20_AttributesExcludeTextFields == AttributesAre(ContentAndSnippet)

\* an item with content, snippet, a null field, a string and a zero gave a
\* document with the last two as attributes
C20_Witness ==
    /\ Retrieved /\ last.net.text = BothText
    /\ Len(DataItems) = 1 /\ DataItems[1].keys = <<"content", "snippet", "score", "doc_id", "rank">>
    /\ last.res.value.kids
          = <<Document(PyStr("X"),
                       PyDict(<<"doc_id", "rank">>, <<PyStr("D1"), PyInt(0)>>))>>

\* C21: every facade constructed has a name beginning with "axiora_", has
\* handle_tool_error true and, unless it is the coverage tool, has an
\* argument schema; each class of ALL_TOOLS has one name and the 18 names
\* are pairwise different, so the facades of one get_tools call are too.
C21_ToolMetadata ==
    /\ \A t \in 1..Len(tools) :
          /\ tools[t].cls \in {ALL_TOOLS[i] : i \in 1..Len(ALL_TOOLS)}
          /\ StartsWith(ToolName(tools[t].cls), "axiora_")
          /\ handle_tool_error(tools[t].cls) = TRUE
          /\ tools[t].cls # "GetCoverageTool" => args_schema(tools[t].cls) # ""
    /\ Constructed("get_tools") =>
          \A t, u \in (Len(tools) - Len(ALL_TOOLS) + 1)..Len(tools) :
             ToolName(tools[t].cls) = ToolName(tools[u].cls) => t = u
    /\ Len(ALL_TOOLS) = 18 /\ Cardinality(_VALID_TOOL_NAMES) = 18

\* get_tools has built the 18 facades, the coverage tool among them
C21_Witness ==
    /\ Constructed("get_tools") /\ Len(tools) = 18
    /\ tools[18].cls = "GetCoverageTool" /\ ToolName(tools[18].cls) = "axiora_get_coverage"
    /\ tools[1].cls = "SearchCompaniesTool" /\ args_schema(tools[1].cls) = "SearchCompaniesInput"

\* C22: when several threads make their first access to one adapter's
\* connection object of one mode, at most one connection object of that
\* mode is ever created for the adapter, and the threads that have returned
\* from the access hold the same object.
C22_InitializedOnce ==
    /\ \A c, d \in 1..Len(clients) :
          (clients[c].owner = clients[d].owner /\ clients[c].mode = clients[d].mode)
             => c = d
    /\ \A t, u \in 1..Len(threads) :
          (threads[t].pc = "done" /\ threads[u].pc = "done"
           /\ threads[t].mode = threads[u].mode)
             => threads[t].got = threads[u].got

\* the connection object of adapter a for the mode other than m, in the
\* heap h (0 when a does not exist yet or has none)
OtherClient(h, a, m) ==
    IF a > Len(h.adapters) THEN 0
    ELSE IF m = "sync" THEN h.adapters[a].async ELSE h.adapters[a].sync
\* the step is an invocation on path m that touches only the connection
\* objects of mode m
OnlyMode(m) ==
    /\ \A a \in 1..Len(adapters') : OtherClient(Heap', a, m) = OtherClient(Heap, a, m)
    /\ SubSeq(clients', 1, Len(clients)) = clients
    /\ \A c \in (Len(clients) + 1)..Len(clients') : clients'[c].mode = m
    /\ sent' > sent =>
          /\ clients'[wire'.client].mode = m
          /\ wire'.client # OtherClient(Heap', clients'[wire'.client].owner, m)

\* C23: an invocation on the blocking path (request, a tool's _run, the
\* retriever's blocking path) sends its request through a sync connection
\* object, creates no async one and leaves every adapter's async connection
\* object and every existing connection object as they were; an invocation
\* on the non-blocking path does the same with sync and async exchanged.
C23_ModesIndependent ==
    [][/\ last'.mode = "sync" => OnlyMode("sync")
       /\ last'.mode = "async" => OnlyMode("async")
      ]_vars

\* a tool ran on the non-blocking path after it ran on the blocking path:
\* the adapter has both connection objects and the request used the async one
C23_Witness ==
    /\ last.op = "tool" /\ last.mode = "async" /\ prev.mode = "sync"
    /\ adapters[1].sync = 1 /\ adapters[1].async = 2
    /\ wire.client = 2 /\ clients[1].mode = "sync" /\ clients[2].mode = "async"
    /\ sent = 2


\* the fields of adapter a that a caller set at construction
Settings(ad) == [api_key |-> ad.api_key, base_url |-> ad.base_url, timeout |-> ad.timeout]

\* the call before this one failed
AfterFailure == prev.op = "request" /\ prev.res.kind # "return"

\* C24: no request or client access changes an adapter apart from creating
\* a missing client: credential, base URL and timeout stay as constructed,
\* a client that exists stays the same object with the same headers and
\* timeout, every request is sent with the adapter's timeout, and a call's
\* request and result are determined by its own arguments and reply alone,
\* whatever happened to the calls before it.
C24_RequestsLeaveAdapterAlone ==
    [][/\ Len(adapters') = Len(adapters)
       /\ \A a \in 1..Len(adapters) :
             /\ Settings(adapters'[a]) = Settings(adapters[a])
             /\ adapters[a].sync # 0 => adapters'[a].sync = adapters[a].sync
             /\ adapters[a].async # 0 => adapters'[a].async = adapters[a].async
       /\ SubSeq(clients', 1, Len(clients)) = clients
       /\ sent' # sent =>
             /\ sent' = sent + 1
             /\ clients'[wire'.client].timeout = adapters[clients'[wire'.client].owner].timeout
             /\ ~clients'[wire'.client].closed
             /\ wire'.method = last'.call.method
             /\ wire'.url = RStrip(adapters[clients'[wire'.client].owner].base_url, "/")
                               \o last'.call.path
             /\ wire'.params = _clean(OrEmpty(last'.call.params))
             /\ last'.res = Receive(last'.net)
      ]_vars

\* a request that succeeds on the client an earlier, failed request used
C24_Witness ==
    /\ AfterFailure /\ prev.mode = "sync"
    /\ last.op = "request" /\ last.mode = "sync" /\ last.res.kind = "return"
    /\ sent = 2 /\ Len(clients) = 1 /\ wire.client = adapters[1].sync
    /\ Settings(adapters[1]) = Settings(NewAdapter(Key, DEFAULT_BASE_URL))


\* the defaults the input schemas declare for `limit` and `years`
SchemaDefault(cls, f) ==
    CASE cls \in {"SearchCompaniesTool", "GetPeersTool", "SearchTranslationsTool"}
              /\ f = "limit" -> PyInt(10)
      [] cls \in {"GetRankingTool", "ScreenCompaniesTool", "GetHealthRankingTool",
                  "ListFilingsTool"} /\ f = "limit" -> PyInt(20)
      [] cls \in {"GetFinancialsTool", "GetGrowthTool"} /\ f = "years" -> PyInt(5)
      [] cls = "CompareCompaniesTool" /\ f = "years" -> PyInt(3)
      [] cls = "GetTimeseriesTool" /\ f = "years" -> PyInt(10)

Counted == {"limit", "years"}
Listed == {"codes", "queries"}

\* C25: a facade sends `limit` and `years` as given, however large, and the
\* schema's default when the argument is omitted; it sends a list of codes
\* or queries whole, joined by commas, however long; and in every case the
\* request is issued, so no argument value fails locally.
C25_DefaultsAppliedCapsNotEnforced ==
    last.op = "tool" =>
        /\ wire.client # 0 /\ sent >= 1
        /\ last.res.kind \in {"return", "ToolException", "TransportError", "JSONDecodeError"}
        /\ \A f \in DOMAIN last.targs \cap Counted :
              /\ f \in DOMAIN wire.params
              /\ wire.params[f] = IF last.targs[f] = Omitted
                                  THEN SchemaDefault(last.cls, f) ELSE last.targs[f]
        /\ \A f \in DOMAIN last.targs \cap Listed :
              /\ f \in DOMAIN wire.params
              /\ wire.params[f] =
                    PyStr(Join([i \in 1..Len(last.targs[f].kids) |-> last.targs[f].kids[i].s],
                               ","))

\* eleven codes and years above the documented 10 sent by the compare tool
C25_Witness ==
    /\ last.op = "tool" /\ last.cls = "CompareCompaniesTool"
    /\ last.targs.codes = ManyCodes /\ last.targs.years = PyInt(25)
    /\ wire.params.years = PyInt(25)
    /\ Len(wire.params.codes.s) = 54
    /\ last.res.kind = "return"


\* the reply is a JSON object that has a `detail` key with an empty or null
\* value and a non-empty `error` field
EmptyDetailWithError(body) ==
    /\ body.ok /\ body.v.t = "dict"
    /\ HasKey(body.v, "detail") /\ ~Truthy(body.v.kids[KeyIndex(body.v, "detail")])
    /\ HasKey(body.v, "error") /\ Truthy(body.v.kids[KeyIndex(body.v, "error")])

\* the message with no detail segment: the status, then the hint if any
WithoutDetail(status) ==
    IF HintFor(status) = "" THEN "Axiora API error " \o ToString(status)
    ELSE "Axiora API error " \o ToString(status) \o ". " \o HintFor(status)

\* C26: when the error body has a `detail` key whose value is empty or null,
\* the tool's message has no detail segment, even though the body also has a
\* non-empty `error` field: `error` is read only when `detail` is absent.
C26_ErrorOnlyWhenDetailAbsent ==
    (ToolError /\ EmptyDetailWithError(Loads(last.net.text))) =>
        /\ last.res.msg = WithoutDetail(Status)
        /\ ~Contains(last.res.msg, "boom")

\* a 500 reply with a null detail and an error text
C26_Witness ==
    /\ ToolError /\ Status = 500
    /\ last.net.text = "{\"detail\": null, \"error\": \"boom\"}"
    /\ last.res.msg = "Axiora API error 500"


\* the connection objects of adapter a
ConnectionsOf(ads, a) == {ads[a].sync, ads[a].async} \ {0}

\* C27: the adapter a get_tools call binds its facades to is not the adapter
\* of any facade that existed before the call, in particular not that of the
\* facades an earlier call on the same toolkit returned; the call leaves the
\* toolkit as it was; and facades bound to different adapters never have a
\* connection object in common.
C27_FreshAdapterPerCall ==
    [][/\ GotTools =>
             /\ toolkits' = toolkits
             /\ last'.targs \in {toolkits[t] : t \in 1..Len(toolkits)}
             /\ \A t \in 1..Len(tools) :
                   /\ tools'[t] = tools[t]
                   /\ \A u \in (Len(tools) + 1)..Len(tools') : tools'[u].api # tools[t].api
       /\ \A a, b \in 1..Len(adapters') :
             a # b => ConnectionsOf(adapters', a) \cap ConnectionsOf(adapters', b) = {}
      ]_vars

\* facades of two get_tools calls on the one toolkit, each called on the
\* blocking path: two adapters and two connection objects
C27_Witness ==
    /\ Len(toolkits) = 1 /\ Len(adapters) = 2 /\ Len(tools) = 2 * Len(ALL_TOOLS)
    /\ tools[1].api = 1 /\ tools[Len(ALL_TOOLS) + 1].api = 2
    /\ sent = 2 /\ last.op = "tool" /\ prev.op = "tool"
    /\ last.mode = "sync" /\ prev.mode = "sync"
    /\ adapters[1].sync # 0 /\ adapters[2].sync # 0
    /\ adapters[1].sync # adapters[2].sync


\* the classes of the facades the last get_tools call returned, in the
\* order of the returned list
ReturnedClasses == [i \in 1..Len(ReturnedTools) |-> tools[ReturnedTools[i]].cls]

Filtered == Constructed("get_tools") /\ last.targs.selected_tools # PyNone

\* C28: with a filter, get_tools returns the classes of ALL_TOOLS whose name
\* is in the filter, each once and in the order of ALL_TOOLS, whatever the
\* order and the repetitions of the names in the filter; with an empty
\* filter it returns the empty list.
C28_FilterKeepsToolOrder ==
    Filtered =>
        /\ ReturnedClasses =
              SelectSeq(ALL_TOOLS,
                        LAMBDA cls : \E i \in 1..Len(last.targs.selected_tools.kids) :
                                        last.targs.selected_tools.kids[i].s = ToolName(cls))
        /\ last.targs.selected_tools.kids = <<>> => ReturnedTools = <<>>

\* the filter names the coverage tool first, and twice; the list returned
\* has the company tool first, as ALL_TOOLS has
C28_Witness ==
    /\ Filtered
    /\ Len(last.targs.selected_tools.kids) = 3
    /\ last.targs.selected_tools.kids[1] = PyStr("axiora_get_coverage")
    /\ ReturnedClasses = <<"GetCompanyTool", "GetCoverageTool">>


\* the adapter call fails, but not on the HTTP status: no reply at all (a
\* transport error or timeout), or a 2xx reply whose body is not JSON
NonStatusFailure(net) ==
    \/ net.kind = "transport"
    \/ net.kind = "response" /\ IsSuccess(net.status) /\ ~Loads(net.text).ok

\* C29: when the adapter call of a facade or of the retriever fails for
\* another reason than the HTTP status, the caller gets the adapter's own
\* exception: a facade raises no ToolException and the retriever returns no
\* list.
C29_OtherFailuresPropagate ==
    (last.op \in {"tool", "retriever"} /\ NonStatusFailure(last.net)) =>
        /\ last.res = Receive(last.net)
        /\ last.res.kind \in {"TransportError", "JSONDecodeError"}

\* the retriever has let a decoding error through on both paths
C29_Witness ==
    /\ last.op = "retriever" /\ prev.op = "retriever" /\ last.mode = "async"
    /\ last.net = Response(204, "")
    /\ last.res.kind = "JSONDecodeError" /\ prev.res.kind = "JSONDecodeError"


\* what the search-translations tool sends for the retriever's query,
\* section and limit
AsToolSends ==
    _clean(OrEmpty(SearchTranslationsTool_run([query |-> PyStr(inp.query),
                                               section |-> retriever.section,
                                               limit |-> PyInt(retriever.k)]).params))

SectionSet == retriever.section.t = "str" /\ retriever.section.s # ""

\* C30: the retriever's request carries q = the query text, limit = k, and
\* section = the configured section when that is a non-empty string, and no
\* other parameter; the search-translations tool carries the text under
\* `query` and never under `q`, so the two mappings differ for the same
\* query, section and limit.
C30_RetrieverParameters ==
    /\ last.op = "retriever" =>
          /\ DOMAIN wire.params = {"q", "limit"} \cup (IF SectionSet THEN {"section"} ELSE {})
          /\ wire.params["q"] = PyStr(inp.query)
          /\ wire.params["limit"] = PyInt(retriever.k)
          /\ SectionSet => wire.params["section"] = retriever.section
          /\ wire.url = DEFAULT_BASE_URL \o "/translations/search"
          /\ wire.params # AsToolSends
          /\ "query" \in DOMAIN AsToolSends
    /\ (last.op = "tool" /\ last.cls = "SearchTranslationsTool") =>
          /\ "query" \in DOMAIN wire.params /\ "q" \notin DOMAIN wire.params
          /\ wire.params["query"] = last.targs.query

\* a retriever configured with the empty section and k = 100 has sent q and
\* limit alone
C30_Witness ==
    /\ last.op = "retriever" /\ last.mode = "sync"
    /\ retriever.section = PyStr("") /\ retriever.k = 100
    /\ DOMAIN wire.params = {"q", "limit"}
    /\ wire.params["limit"] = PyInt(100)

====
